---- MODULE Spec2Model ----
(***************************************************************************)
(* Model of the file-backed memory store of opencode-plugin-simple-memory  *)
(* (src/src/index.ts): the logfmt record codec (parseLine and the line     *)
(* builders of remember, update and logDeletion), the scan getAllMemories, *)
(* the ranking function scoreMatch and the tools remember, recall, update  *)
(* and forget over a directory of day files plus the audit file.           *)
(*                                                                         *)
(* Text is a sequence of one-character strings, so that the regular        *)
(* expressions of parseLine, the escaping of quotes, split, join, trim and *)
(* toLowerCase are computed character by character as the code does.       *)
(* Operators that need an intermediate value more than once take it as a   *)
(* parameter.                                                              *)
(***************************************************************************)
EXTENDS Integers, Sequences, FiniteSets, TLC

(***************************************************************************)
(* Characters                                                              *)
(***************************************************************************)
NL == "\n"
SP == " "
QUOTE == "\""
BSL == "\\"

\* JavaScript \s, restricted to the whitespace characters the model uses
IsSpace(c) == c \in {SP, NL, "\t"}

\* String.prototype.toLowerCase on one character (the upper-case letters of
\* the texts the model lower-cases are listed; every other character maps to itself)
LowerChar(c) ==
  CASE c = "A" -> "a"
    [] c = "B" -> "b"
    [] c = "F" -> "f"
    [] c = "I" -> "i"
    [] c = "P" -> "p"
    [] c = "T" -> "t"
    [] c = "Z" -> "z"
    [] OTHER -> c

toLowerCase(s) == [i \in 1..Len(s) |-> LowerChar(s[i])]

(***************************************************************************)
(* String primitives                                                       *)
(***************************************************************************)
Min(S) == CHOOSE i \in S : \A j \in S : i <= j

\* does needle occur in hay at position i (1-based)
OccursAt(hay, needle, i) ==
  /\ i >= 1
  /\ i + Len(needle) - 1 <= Len(hay)
  /\ \A k \in 1..Len(needle) : hay[i + k - 1] = needle[k]

\* String.prototype.includes
includes(hay, needle) ==
  \E i \in 1..(Len(hay) - Len(needle) + 1) : OccursAt(hay, needle, i)

RECURSIVE JoinFrom(_, _, _)
JoinFrom(parts, sep, i) ==
  IF i > Len(parts) THEN <<>>
  ELSE IF i = Len(parts) THEN parts[i]
  ELSE parts[i] \o sep \o JoinFrom(parts, sep, i + 1)

\* Array.prototype.join
join(parts, sep) == JoinFrom(parts, sep, 1)

\* the elements of a set of positions in increasing order
Ordered(ps) ==
  [k \in 1..Cardinality(ps) |->
     CHOOSE p \in ps : Cardinality({q \in ps : q < p}) = k - 1]

\* the pieces of s between the separator positions seps (increasing)
SplitAt(s, seps) ==
  [k \in 1..(Len(seps) + 1) |->
     SubSeq(s, IF k = 1 THEN 1 ELSE seps[k - 1] + 1,
               IF k = Len(seps) + 1 THEN Len(s) ELSE seps[k] - 1)]

\* String.prototype.split on a one-character separator: always at least one
\* piece, "" splits into [""], a trailing separator gives a trailing ""
split(s, c) == SplitAt(s, Ordered({i \in 1..Len(s) : s[i] = c}))

\* String.prototype.trim
trim(s) ==
  IF \A i \in 1..Len(s) : IsSpace(s[i]) THEN <<>>
  ELSE SubSeq(s,
         CHOOSE i \in 1..Len(s) :
           ~IsSpace(s[i]) /\ \A j \in 1..(i - 1) : IsSpace(s[j]),
         CHOOSE i \in 1..Len(s) :
           ~IsSpace(s[i]) /\ \A j \in (i + 1)..Len(s) : IsSpace(s[j]))

\* s.replace(/"/g, '\\"') : every double quote gets a backslash in front
RECURSIVE EscapeFrom(_, _)
EscapeFrom(s, i) ==
  IF i > Len(s) THEN <<>>
  ELSE IF s[i] = QUOTE THEN <<BSL, QUOTE>> \o EscapeFrom(s, i + 1)
  ELSE <<s[i]>> \o EscapeFrom(s, i + 1)

escapeQuotes(s) == EscapeFrom(s, 1)

\* s.replace(/\\"/g, '"') : every backslash-quote pair becomes a quote,
\* scanning left to right without overlap
RECURSIVE UnescapeFrom(_, _)
UnescapeFrom(s, i) ==
  IF i > Len(s) THEN <<>>
  ELSE IF i < Len(s) /\ s[i] = BSL /\ s[i + 1] = QUOTE
       THEN <<QUOTE>> \o UnescapeFrom(s, i + 2)
  ELSE <<s[i]>> \o UnescapeFrom(s, i + 1)

unescapeQuotes(s) == UnescapeFrom(s, 1)

(***************************************************************************)
(* Optional values: undefined or a defined value                           *)
(***************************************************************************)
Undefined == [def |-> FALSE, val |-> <<>>]
Some(v) == [def |-> TRUE, val |-> v]

\* truthiness of an optional string, tags?.length of an optional array
Truthy(o) == o.def /\ Len(o.val) > 0

(***************************************************************************)
(* Regular expressions of parseLine                                        *)
(***************************************************************************)
\* end of the maximal run that starts at i of characters other than a double
\* quote (isQuoteRun) or other than whitespace; i - 1 when the run is empty
RunEnd(line, i, isQuoteRun) ==
  (CHOOSE j \in i..(Len(line) + 1) :
     /\ \/ j = Len(line) + 1
        \/ IF isQuoteRun THEN line[j] = QUOTE ELSE IsSpace(line[j])
     /\ \A k \in i..(j - 1) :
          IF isQuoteRun THEN line[k] # QUOTE ELSE ~IsSpace(line[k])) - 1

\* the capture ([^\s]+) of the leftmost hit
TokenAt(line, k, hits) ==
  IF hits = {} THEN Undefined
  ELSE Some(SubSeq(line, Min(hits) + k, RunEnd(line, Min(hits) + k, FALSE)))

\* line.match(/key=([^\s]+)/)?.[1] : the leftmost occurrence of key= that is
\* followed by at least one non-space character; the capture is the maximal
\* run of non-space characters after it
matchToken(line, key) ==
  TokenAt(line, Len(key),
          {i \in 1..(Len(line) - Len(key)) :
             /\ line[i] = key[1]
             /\ OccursAt(line, key, i)
             /\ ~IsSpace(line[i + Len(key)])})

\* The tail (?:\\"[^"]*)*" of the content pattern, tried at position p by a
\* backtracking matcher: the group is greedy, so one more iteration is tried
\* first (with its [^"]* run longest first), then the closing quote.
\* Returns the position of the closing quote, or 0 when nothing matches.
RECURSIVE ContentTail(_, _)
RECURSIVE ContentRun(_, _, _)
RECURSIVE ContentTailOr(_, _, _)
RECURSIVE ContentRunOr(_, _, _, _)
ContentTailOr(line, p, more) ==
  IF more # 0 THEN more
  ELSE IF p <= Len(line) /\ line[p] = QUOTE THEN p
  ELSE 0

ContentTail(line, p) ==
  ContentTailOr(line, p,
    IF p < Len(line) /\ line[p] = BSL /\ line[p + 1] = QUOTE
    THEN ContentRun(line, p + 2, RunEnd(line, p + 2, TRUE))
    ELSE 0)

ContentRunOr(line, from, e, r) ==
  IF r # 0 THEN r ELSE ContentRun(line, from, e - 1)

\* a [^"]* run that starts at position from and may end at e, e-1, ..., from-1
\* (longest first), followed by ContentTail
ContentRun(line, from, e) ==
  IF e < from - 1 THEN 0
  ELSE ContentRunOr(line, from, e, ContentTail(line, e + 1))

ContentKey == <<"c", "o", "n", "t", "e", "n", "t", "=", QUOTE>>

\* position of the closing quote of a match that starts with content=" at i
ContentClose(line, i) ==
  ContentRun(line, i + Len(ContentKey), RunEnd(line, i + Len(ContentKey), TRUE))

ContentAt(line, hits) ==
  IF hits = {} THEN Undefined
  ELSE Some(SubSeq(line, Min(hits) + Len(ContentKey),
                   ContentClose(line, Min(hits)) - 1))

\* line.match(/content="([^"]*(?:\\"[^"]*)*)"/)?.[1]
matchContent(line) ==
  ContentAt(line,
            {i \in 1..(Len(line) - Len(ContentKey)) :
               /\ line[i] = "c"
               /\ OccursAt(line, ContentKey, i)
               /\ ContentClose(line, i) # 0})

TsKey == <<"t", "s", "=">>
TypeKey == <<"t", "y", "p", "e", "=">>
ScopeKey == <<"s", "c", "o", "p", "e", "=">>
IssueKey == <<"i", "s", "s", "u", "e", "=">>
TagsKey == <<"t", "a", "g", "s", "=">>

Null == [isNull |-> TRUE]

\* the value parseLine returns for its six matches: null unless ts, type and
\* scope all matched; content defaults to ""; issue and tags are undefined
\* when their token is missing
Memory(tsMatch, typeMatch, scopeMatch, contentMatch, issueMatch, tagsMatch) ==
  IF ~tsMatch.def \/ ~typeMatch.def \/ ~scopeMatch.def THEN Null
  ELSE [isNull |-> FALSE,
        ts |-> tsMatch.val,
        type |-> typeMatch.val,
        scope |-> scopeMatch.val,
        content |-> IF contentMatch.def THEN unescapeQuotes(contentMatch.val)
                    ELSE <<>>,
        issue |-> issueMatch,
        tags |-> IF tagsMatch.def THEN Some(split(tagsMatch.val, ","))
                 ELSE Undefined]

parseLine(line) ==
  Memory(matchToken(line, TsKey), matchToken(line, TypeKey),
         matchToken(line, ScopeKey), matchContent(line),
         matchToken(line, IssueKey), matchToken(line, TagsKey))

(***************************************************************************)
(* Bounds of the model                                                     *)
(***************************************************************************)
\* number of tool calls (remember, recall, update, forget) in one behaviour
MaxOps == 2
\* number of calendar days the clock runs through
MaxDay == 2

(***************************************************************************)
(* Literals                                                                *)
(***************************************************************************)
Decision == <<"d", "e", "c", "i", "s", "i", "o", "n">>
Learning == <<"l", "e", "a", "r", "n", "i", "n", "g">>
Preference == <<"p", "r", "e", "f", "e", "r", "e", "n", "c", "e">>
Blocker == <<"b", "l", "o", "c", "k", "e", "r">>
Context == <<"c", "o", "n", "t", "e", "x", "t">>
Pattern == <<"p", "a", "t", "t", "e", "r", "n">>

\* the closed set of the enum of remember, recall, update and forget
MemoryTypes == {Decision, Learning, Preference, Blocker, Context, Pattern}

Digits == <<"1", "2", "3", "4", "5", "6", "7", "8", "9">>

\* new Date().toISOString() on day d, shortened to <day>T<zone>: a
\* non-empty text without whitespace whose part before "T" is the date
toISOString(d) == <<Digits[d], "T", "Z">>

(***************************************************************************)
(* State                                                                   *)
(***************************************************************************)
VARIABLES
  dirExists,  \* runtime.settings.memoryDir exists
  files,      \* day -> [exists, text] : <memoryDir>/<date>.logfmt
  audit,      \* [exists, text] : <memoryDir>/deletions.logfmt
  globOrder,  \* order in which Bun.Glob enumerates the day files
  today,      \* calendar day of the clock
  nOps,       \* tool calls so far
  op,         \* the tool that ran last
  args,       \* its arguments
  pre,        \* day files, audit file, event logs and session cache before it ran
  result,     \* what it returned
  local,      \* values of its local variables when it returned
  logger,     \* runtime.settings.logger: [enabled, scopes]
  sessionAgents, \* runtime.sessionAgents: session id -> last agent named
  logs,       \* the event log files: path -> the JSON lines of the file
  sessionInfo, \* the session cache: session id -> SessionInfo
  lookups     \* session id -> calls of the session lookup made for it

vars == <<dirExists, files, audit, globOrder, today, nOps,
          op, args, pre, result, local,
          logger, sessionAgents, logs, sessionInfo, lookups>>

Days == 1..MaxDay

Absent == [exists |-> FALSE, text |-> <<>>]
File(text) == [exists |-> TRUE, text |-> text]

\* (await file.exists()) ? await file.text() : ""
textOrEmpty(f) == IF f.exists THEN f.text ELSE <<>>

\* an optional boolean argument
NoBool == [def |-> FALSE, val |-> FALSE]
SomeBool(b) == [def |-> TRUE, val |-> b]

\* the arguments of a tool or the input of a hook; payload holds the payload
\* object as a one-element sequence
NoArgs ==
  [type |-> <<>>, scope |-> <<>>, content |-> <<>>, issue |-> Undefined,
   tags |-> Undefined, query |-> Undefined, limit |-> Undefined,
   reason |-> <<>>,
   sessionID |-> <<>>, parentSessionID |-> Undefined, taskID |-> Undefined,
   agent |-> Undefined, hookScope |-> Undefined, payload |-> <<>>,
   enabled |-> NoBool, scopes |-> Undefined]

\* emitted: the events handed to the log writer, each with its scope and
\* payload; built: the event buildLoggerEvent returned; info: the
\* SessionInfo the operation resolved; summary: what list counted; calls: the
\* local variables of the calls in flight when the tools run step by step
NoLocal == [all |-> <<>>, scores |-> <<>>, results |-> <<>>, limited |-> <<>>,
            matches |-> <<>>, target |-> <<>>, deleted |-> <<>>,
            emitted |-> <<>>, built |-> <<>>, info |-> <<>>,
            summary |-> <<>>, calls |-> <<>>]

\* a returned message: its kind and the count it states
Result(kind, count) == [kind |-> kind, count |-> count, total |-> 0,
                        memories |-> <<>>]

(***************************************************************************)
(* Line builders                                                           *)
(***************************************************************************)
KvTs == <<"t", "s", "=">>
KvType == <<" ", "t", "y", "p", "e", "=">>
KvScope == <<" ", "s", "c", "o", "p", "e", "=">>
KvContent == <<" ", "c", "o", "n", "t", "e", "n", "t", "=", QUOTE>>
KvIssue == <<" ", "i", "s", "s", "u", "e", "=">>
KvTags == <<" ", "t", "a", "g", "s", "=">>
KvAction == <<" ", "a", "c", "t", "i", "o", "n", "=", "d", "e",
      "l", "e", "t", "e", "d", " ", "o", "r", "i", "g", "i", "n", "a", "l", "_", "t", "s", "=">>
KvReason == <<" ", "r", "e", "a", "s", "o", "n", "=", QUOTE>>
UpdatedTo == <<"U", "p", "d", "a", "t", "e", "d", " ", "t", "o", ":", " ">>

\* ` issue=${issue}` or ""
issueStr(issue) == IF Truthy(issue) THEN KvIssue \o issue.val ELSE <<>>

\* ` tags=${tags.join(",")}` or ""
tagsStr(tags) == IF Truthy(tags) THEN KvTags \o join(tags.val, <<",">>) ELSE <<>>

\* the line remember appends, newline included
rememberLine(a, ts) ==
  KvTs \o ts \o KvType \o a.type \o KvScope \o a.scope
    \o KvContent \o escapeQuotes(a.content) \o <<QUOTE>>
    \o issueStr(a.issue) \o tagsStr(a.tags) \o <<NL>>

\* the line logDeletion appends, newline included
deletionLine(memory, reason, ts) ==
  KvTs \o ts \o KvAction \o memory.ts \o KvType \o memory.type
    \o KvScope \o memory.scope
    \o KvContent \o escapeQuotes(memory.content) \o <<QUOTE>>
    \o KvReason \o escapeQuotes(reason) \o <<QUOTE>>
    \o issueStr(memory.issue) \o tagsStr(memory.tags) \o <<NL>>

\* the write that would replace the audit file by the new line
logDeletionOverwrite(au, memory, reason, ts) ==
  File(deletionLine(memory, reason, ts))

\* logDeletion: existing + line written to deletions.logfmt
logDeletion(au, memory, reason, ts) ==
  File(textOrEmpty(au) \o deletionLine(memory, reason, ts))

(***************************************************************************)
(* Directory scan                                                          *)
(***************************************************************************)
\* Array.fromAsync(new Bun.Glob("*.logfmt").scan(memoryDir)): the day files
\* that exist, in enumeration order, and deletions.logfmt when it exists
\* (every loop skips it by name, so its position does not matter)
globFiles(fs, au, order) ==
  [i \in 1..Len(SelectSeq(order, LAMBDA d : fs[d].exists)) |->
     [deletions |-> FALSE, day |-> SelectSeq(order, LAMBDA d : fs[d].exists)[i]]]
    \o (IF au.exists THEN <<[deletions |-> TRUE, day |-> 0]>> ELSE <<>>)

\* lines.map(parseLine)
parseLines(lines) == [i \in 1..Len(lines) |-> parseLine(lines[i])]

\* the lines of one day file as update and forget read them,
\* text.split("\n"), each with what parseLine returns for it
LinesOf(lines) == [lines |-> lines, memories |-> parseLines(lines)]

fileLines(f) == IF f.exists THEN LinesOf(split(f.text, NL)) ELSE LinesOf(<<>>)

\* every day file read that way
dirLines(fs) == [d \in Days |-> fileLines(fs[d])]

\* Array.prototype.filter(Boolean) on an array of strings
filterBoolean(lines) == SelectSeq(lines, LAMBDA l : Len(l) > 0)

IsMemory(m) == ~m.isNull

RECURSIVE ScanLinesFrom(_, _, _)
ScanLinesFrom(fs, names, i) ==
  IF i > Len(names) THEN <<>>
  ELSE IF names[i].deletions THEN ScanLinesFrom(fs, names, i + 1)
  ELSE filterBoolean(split(trim(fs[names[i].day].text), NL))
         \o ScanLinesFrom(fs, names, i + 1)

ScanNames(fs, names) ==
  IF Len(names) = 0 THEN <<>>
  ELSE SelectSeq(parseLines(ScanLinesFrom(fs, names, 1)), IsMemory)

\* getAllMemories
getAllMemories(dirEx, fs, au, order) ==
  IF ~dirEx THEN <<>> ELSE ScanNames(fs, globFiles(fs, au, order))

(***************************************************************************)
(* Ranking                                                                 *)
(***************************************************************************)
\* query.toLowerCase().split(/\s+/).filter(Boolean): the maximal runs of
\* non-space characters of the lower-cased query
RECURSIVE WordsFrom(_, _)
WordsFrom(s, i) ==
  IF i > Len(s) THEN <<>>
  ELSE IF IsSpace(s[i]) THEN WordsFrom(s, i + 1)
  ELSE <<SubSeq(s, i, RunEnd(s, i, FALSE))>> \o WordsFrom(s, RunEnd(s, i, FALSE) + 1)

queryWords(query) == WordsFrom(toLowerCase(query), 1)

\* `${type} ${scope} ${content} ${tags?.join(" ") || ""}`.toLowerCase()
searchable(memory) ==
  toLowerCase(memory.type \o <<SP>> \o memory.scope \o <<SP>> \o memory.content
                \o <<SP>> \o (IF memory.tags.def THEN join(memory.tags.val, <<SP>>)
                              ELSE <<>>))

\* the loop of scoreMatch from word i on
RECURSIVE ScoreFrom(_, _, _, _)
ScoreFrom(memory, hay, words, i) ==
  IF i > Len(words) THEN 0
  ELSE (IF includes(hay, words[i]) THEN 1 ELSE 0)
       + (IF toLowerCase(memory.scope) = words[i] THEN 2 ELSE 0)
       + (IF toLowerCase(memory.type) = words[i] THEN 2 ELSE 0)
       + ScoreFrom(memory, hay, words, i + 1)

\* the score that would count the occurrences only, without the bonuses
scoreMatchNoBonus(memory, words) ==
  Cardinality({i \in 1..Len(words) : includes(searchable(memory), words[i])})

scoreMatch(memory, words) == ScoreFrom(memory, searchable(memory), words, 1)

\* insertion of x behind every element whose score is not smaller
RECURSIVE InsertByScore(_, _, _)
InsertByScore(sorted, x, i) ==
  IF i > Len(sorted) THEN Append(sorted, x)
  ELSE IF sorted[i].score < x.score
       THEN SubSeq(sorted, 1, i - 1) \o <<x>> \o SubSeq(sorted, i, Len(sorted))
  ELSE InsertByScore(sorted, x, i + 1)

RECURSIVE SortFrom(_, _, _)
SortFrom(xs, i, acc) ==
  IF i > Len(xs) THEN acc
  ELSE SortFrom(xs, i + 1, InsertByScore(acc, xs[i], 1))

\* .sort((a, b) => b.score - a.score): Array.prototype.sort is stable
sortByScoreDesc(xs) == SortFrom(xs, 1, <<>>)

\* .filter((x) => x.score > 0)
positive(xs) == SelectSeq(xs, LAMBDA x : x.score > 0)

(***************************************************************************)
(* The JSONL event logger                                                  *)
(***************************************************************************)
\* An event is the JSON object of one line: the mapping of its keys to
\* their values.  A value is a text, or null/undefined (Undefined).
EmptyObject == [k \in {} |-> Undefined]

\* {...base, ...over}: a key of over replaces the same key of base
Spread(base, over) ==
  [k \in DOMAIN base \cup DOMAIN over |->
     IF k \in DOMAIN over THEN over[k] ELSE base[k]]

\* value || null
orNull(o) == IF Truthy(o) THEN o ELSE Undefined

\* DEFAULT_SETTINGS
DEFAULT_SETTINGS ==
  [memoryDir |-> <<".", "o", "p", "e", "n", "c", "o", "d", "e", "/", "m", "e", "m", "o", "r", "y">>,
   logger |-> [enabled |-> FALSE, scopes |-> <<>>,
               dir |-> <<".", "o", "p", "e", "n", "c", "o", "d",
      "e", "/", "l", "o", "g", "s", "/", "m", "e", "m", "o", "r", "y">>]]

\* scopes.includes(scope)
scopesInclude(scopes, scope) == \E i \in 1..Len(scopes) : scopes[i] = scope

\* buildLoggerEvent; now is new Date().toISOString()
buildLoggerEvent(eventName, input, now) ==
  Spread([ts |-> Some(now),
          event |-> Some(eventName),
          session_id |-> Some(input.sessionID),
          subagent_session_id |-> Some(input.sessionID),
          parent_session_id |-> input.parentSessionID,
          root_session_id |-> IF Truthy(input.parentSessionID)
                              THEN input.parentSessionID
                              ELSE Some(input.sessionID),
          task_id |-> orNull(input.taskID),
          agent |-> orNull(input.agent)],
         input.payload)

\* a gate that looks at the enabled flag only
shouldLogScopeEnabled(lg, scope) == lg.enabled

\* shouldLogScope
shouldLogScope(lg, scope) ==
  IF ~lg.enabled THEN FALSE
  ELSE IF Len(lg.scopes) = 0 THEN TRUE
  ELSE scopesInclude(lg.scopes, <<"*">>) \/ scopesInclude(lg.scopes, scope)

\* Bun.write(file, existing + JSON.stringify(payload) + "\n"): the file at
\* path gets one more line
appendLine(fs, path, payload) ==
  [p \in DOMAIN fs \cup {path} |->
     IF p # path THEN fs[p]
     ELSE IF path \in DOMAIN fs THEN Append(fs[path], payload)
     ELSE <<payload>>]

\* ${logger.dir}/${date}.jsonl
logFile(lg, now) == lg.dir \o <<"/">> \o split(now, "T")[1] \o <<".", "j", "s", "o", "n", "l">>

\* appendJsonLog; fs is the event log files and now the current time
appendJsonLog(lg, fs, scope, payload, now) ==
  IF ~shouldLogScope(lg, scope) THEN fs
  ELSE appendLine(fs, logFile(lg, now), payload)

\* one call of appendJsonLog as local.emitted records it
Emitted(scope, payload) == <<[scope |-> scope, payload |-> payload]>>

\* the payloads the memory tools log
rememberEvent(a, now) ==
  [ts |-> Some(now), event |-> Some(<<"m", "e", "m", "o", "r",
      "y", "_", "r", "e", "m", "e", "m", "b", "e", "r">>), scope |-> Some(a.scope),
   memory_type |-> Some(a.type), content |-> Some(a.content)]

updateEvent(a, now) ==
  [ts |-> Some(now), event |-> Some(<<"m", "e", "m", "o", "r",
      "y", "_", "u", "p", "d", "a", "t", "e">>), scope |-> Some(a.scope),
   memory_type |-> Some(a.type), content |-> Some(a.content)]

forgetEvent(a, now) ==
  [ts |-> Some(now), event |-> Some(<<"m", "e", "m", "o", "r",
      "y", "_", "f", "o", "r", "g", "e", "t">>), scope |-> Some(a.scope),
   memory_type |-> Some(a.type), reason |-> Some(a.reason)]

(***************************************************************************)
(* remember                                                                *)
(***************************************************************************)
\* remember.execute: ensureDir, then existing + line written to the day
\* file of the current date, then appendJsonLog
Remember(a) ==
  /\ nOps < MaxOps
  /\ nOps' = nOps + 1
  /\ dirExists' = TRUE
  /\ files' = [files EXCEPT ![today] =
                 File(textOrEmpty(@) \o rememberLine(a, toISOString(today)))]
  /\ op' = "remember"
  /\ args' = a
  /\ pre' = [files |-> files, audit |-> audit, logs |-> logs,
             sessionInfo |-> sessionInfo]
  /\ result' = Result("Remembered", 0)
  /\ local' = [NoLocal EXCEPT
                 !.emitted = Emitted(a.scope, rememberEvent(a, toISOString(today)))]
  /\ logs' = appendJsonLog(logger, logs, a.scope,
                           rememberEvent(a, toISOString(today)), toISOString(today))
  /\ UNCHANGED <<audit, globOrder, today,
                 logger, sessionAgents, sessionInfo, lookups>>

(***************************************************************************)
(* update                                                                  *)
(***************************************************************************)
\* memory.scope === args.scope && memory.type === args.type
sameScopeType(memory, scope, type) ==
  ~memory.isNull /\ memory.scope = scope /\ memory.type = type

\* matches that all carry the index of the first line
fileMatchesFirstLine(memories, day, scope, type) ==
  SelectSeq([i \in 1..Len(memories) |->
               [memory |-> memories[i], day |-> day, lineIndex |-> 1]],
            LAMBDA m : sameScopeType(m.memory, scope, type))

\* the matches of one file: lines.forEach((line, lineIndex) => ...);
\* lineIndex is 1-based here
fileMatches(memories, day, scope, type) ==
  SelectSeq([i \in 1..Len(memories) |->
               [memory |-> memories[i], day |-> day, lineIndex |-> i]],
            LAMBDA m : sameScopeType(m.memory, scope, type))

RECURSIVE MatchesFrom(_, _, _, _, _)
MatchesFrom(dl, names, scope, type, i) ==
  IF i > Len(names) THEN <<>>
  ELSE IF names[i].deletions THEN MatchesFrom(dl, names, scope, type, i + 1)
  ELSE fileMatches(dl[names[i].day].memories, names[i].day, scope, type)
         \o MatchesFrom(dl, names, scope, type, i + 1)

\* the matches array of update.execute, file by file in enumeration order
updateMatches(dl, names, scope, type) == MatchesFrom(dl, names, scope, type, 1)

\* matches.map((m) => ({ ...m, score })).filter(score > 0).sort(desc)
scoredMatches(matches, words) ==
  sortByScoreDesc(positive(
    [i \in 1..Len(matches) |->
       [memory |-> matches[i].memory, day |-> matches[i].day,
        lineIndex |-> matches[i].lineIndex,
        score |-> scoreMatch(matches[i].memory, words)]]))

\* the selection that would take the last of the sorted candidates
pickScoredLast(matches, scored) ==
  IF Len(scored) = 0
  THEN [kind |-> "NoneMatchedQuery", count |-> Len(matches), target |-> <<>>]
  ELSE [kind |-> "Updated", count |-> 0,
        target |-> <<[memory |-> scored[Len(scored)].memory,
                      day |-> scored[Len(scored)].day,
                      lineIndex |-> scored[Len(scored)].lineIndex]>>]

\* target = scored[0], or the early return when nothing scored
pickScored(matches, scored) ==
  IF Len(scored) = 0
  THEN [kind |-> "NoneMatchedQuery", count |-> Len(matches), target |-> <<>>]
  ELSE [kind |-> "Updated", count |-> 0,
        target |-> <<[memory |-> scored[1].memory, day |-> scored[1].day,
                      lineIndex |-> scored[1].lineIndex]>>]

\* the selection that would go on with matches[0] whenever no query is given
updateSelectFirst(matches, a) ==
  IF Len(matches) = 0 THEN [kind |-> "NotFound", count |-> 0, target |-> <<>>]
  ELSE IF Len(matches) > 1 /\ Truthy(a.query)
  THEN pickScored(matches, scoredMatches(matches, queryWords(a.query.val)))
  ELSE [kind |-> "Updated", count |-> 0, target |-> <<matches[1]>>]

\* the selection of update.execute: what it returns early, or the target it
\* goes on with
updateSelect(matches, a) ==
  IF Len(matches) = 0 THEN [kind |-> "NotFound", count |-> 0, target |-> <<>>]
  ELSE IF Len(matches) > 1
  THEN IF Truthy(a.query)
       THEN pickScored(matches, scoredMatches(matches, queryWords(a.query.val)))
       ELSE [kind |-> "Ambiguous", count |-> Len(matches), target |-> <<>>]
  ELSE [kind |-> "Updated", count |-> 0, target |-> <<matches[1]>>]

\* a line that has the issue and the tags of the arguments only
updateLineOwn(a, memory, ts) ==
  KvTs \o ts \o KvType \o a.type \o KvScope \o a.scope
    \o KvContent \o escapeQuotes(a.content) \o <<QUOTE>>
    \o issueStr(a.issue) \o tagsStr(a.tags)

\* the line update writes at the target's index
updateLine(a, memory, ts) ==
  KvTs \o ts \o KvType \o a.type \o KvScope \o a.scope
    \o KvContent \o escapeQuotes(a.content) \o <<QUOTE>>
    \o issueStr(IF a.issue.def THEN a.issue ELSE memory.issue)
    \o tagsStr(IF a.tags.def THEN a.tags ELSE memory.tags)

\* lines[target.lineIndex] = newLine; Bun.write(filepath, lines.join("\n")):
\* an index behind the last line lengthens the array, and join renders the
\* empty slots as empty lines
rewriteLine(text, lineIndex, newLine) ==
  join([k \in 1..(IF lineIndex > Len(split(text, NL)) THEN lineIndex
                  ELSE Len(split(text, NL))) |->
          IF k = lineIndex THEN newLine
          ELSE IF k <= Len(split(text, NL)) THEN split(text, NL)[k]
          ELSE <<>>],
       <<NL>>)

\* update.execute after the selection: logDeletion, then the rewrite, then
\* appendJsonLog
updateApply(a, matches, sel) ==
  /\ result' = Result(sel.kind, sel.count)
  /\ IF sel.kind # "Updated"
     THEN /\ local' = [NoLocal EXCEPT !.matches = matches, !.target = sel.target]
          /\ UNCHANGED <<files, audit, logs>>
     ELSE /\ local' = [NoLocal EXCEPT
                         !.matches = matches, !.target = sel.target,
                         !.emitted = Emitted(a.scope,
                                             updateEvent(a, toISOString(today)))]
          /\ logs' = appendJsonLog(logger, logs, a.scope,
                                   updateEvent(a, toISOString(today)),
                                   toISOString(today))
          /\ audit' = logDeletion(audit, sel.target[1].memory,
                                  UpdatedTo \o a.content, toISOString(today))
          /\ files' = [files EXCEPT ![sel.target[1].day] =
                         File(rewriteLine(@.text, sel.target[1].lineIndex,
                                updateLine(a, sel.target[1].memory,
                                           toISOString(today))))]

updateMatched(a, matches) == updateApply(a, matches, updateSelect(matches, a))

\* update.execute; names is what the glob returns and dl the lines of the
\* day files with their parses
Update(a, names, dl) ==
  /\ nOps < MaxOps
  /\ nOps' = nOps + 1
  /\ op' = "update"
  /\ args' = a
  /\ pre' = [files |-> files, audit |-> audit, logs |-> logs,
             sessionInfo |-> sessionInfo]
  /\ UNCHANGED <<dirExists, globOrder, today,
                 logger, sessionAgents, sessionInfo, lookups>>
  /\ IF ~dirExists \/ Len(names) = 0
     THEN /\ result' = Result("NoMemoryFiles", 0)
          /\ local' = NoLocal
          /\ UNCHANGED <<files, audit, logs>>
     ELSE updateMatched(a, updateMatches(dl, names, a.scope, a.type))

(***************************************************************************)
(* forget                                                                  *)
(***************************************************************************)
\* the filter that would compare the scope only
forgetKeepsScope(memory, scope, type) ==
  IF memory.isNull THEN TRUE
  ELSE IF memory.scope = scope THEN FALSE
  ELSE TRUE

\* the callback of lines.filter in forget.execute: TRUE for a line that stays
forgetKeeps(memory, scope, type) ==
  IF memory.isNull THEN TRUE
  ELSE IF memory.scope = scope /\ memory.type = type THEN FALSE
  ELSE TRUE

\* the indices of the lines of one file that stay / that go
keptIndices(memories, scope, type) ==
  SelectSeq([i \in 1..Len(memories) |-> i],
            LAMBDA i : forgetKeeps(memories[i], scope, type))

goneIndices(memories, scope, type) ==
  SelectSeq([i \in 1..Len(memories) |-> i],
            LAMBDA i : ~forgetKeeps(memories[i], scope, type))

\* the file as the loop of forget.execute leaves it: written only when
\* filtered.length !== lines.length
forgetWrite(f, lines, kept) ==
  IF f.exists /\ Len(kept) # Len(lines)
  THEN File(join([k \in 1..Len(kept) |-> lines[kept[k]]], <<NL>>))
  ELSE f

forgetFile(f, fl, scope, type) ==
  forgetWrite(f, fl.lines, keptIndices(fl.memories, scope, type))

\* the loop that would record only the first removed record of a file
forgetRemovedFirst(memories, gone) ==
  IF Len(gone) = 0 THEN <<>> ELSE <<memories[gone[1]]>>

\* what one file adds to deletedMemories
forgetRemoved(memories, gone) == [k \in 1..Len(gone) |-> memories[gone[k]]]

RECURSIVE DeletedFrom(_, _, _, _, _)
DeletedFrom(dl, names, scope, type, i) ==
  IF i > Len(names) THEN <<>>
  ELSE IF names[i].deletions THEN DeletedFrom(dl, names, scope, type, i + 1)
  ELSE forgetRemoved(dl[names[i].day].memories,
                     goneIndices(dl[names[i].day].memories, scope, type))
         \o DeletedFrom(dl, names, scope, type, i + 1)

\* deletedMemories, file by file in enumeration order
deletedMemories(dl, names, scope, type) == DeletedFrom(dl, names, scope, type, 1)

\* for (const memory of deletedMemories) await logDeletion(memory, reason)
RECURSIVE LogDeletionsFrom(_, _, _, _, _)
LogDeletionsFrom(au, memories, reason, ts, i) ==
  IF i > Len(memories) THEN au
  ELSE LogDeletionsFrom(logDeletion(au, memories[i], reason, ts),
                        memories, reason, ts, i + 1)

\* forget.execute after the loop over the files
forgetApply(a, gone) ==
  /\ audit' = LogDeletionsFrom(audit, gone, a.reason, toISOString(today), 1)
  /\ local' = [NoLocal EXCEPT
                 !.deleted = gone,
                 !.emitted = Emitted(a.scope, forgetEvent(a, toISOString(today)))]
  /\ logs' = appendJsonLog(logger, logs, a.scope,
                           forgetEvent(a, toISOString(today)), toISOString(today))
  /\ result' = IF Len(gone) = 0 THEN Result("NotFound", 0)
               ELSE Result("Deleted", Len(gone))

\* forget.execute
Forget(a, names, dl) ==
  /\ nOps < MaxOps
  /\ nOps' = nOps + 1
  /\ op' = "forget"
  /\ args' = a
  /\ pre' = [files |-> files, audit |-> audit, logs |-> logs,
             sessionInfo |-> sessionInfo]
  /\ UNCHANGED <<dirExists, globOrder, today,
                 logger, sessionAgents, sessionInfo, lookups>>
  /\ IF ~dirExists \/ Len(names) = 0
     THEN /\ result' = Result("NoMemoryFiles", 0)
          /\ local' = NoLocal
          /\ UNCHANGED <<files, audit, logs>>
     ELSE /\ files' = [d \in Days |-> forgetFile(files[d], dl[d], a.scope, a.type)]
          /\ forgetApply(a, deletedMemories(dl, names, a.scope, a.type))

(***************************************************************************)
(* recall                                                                  *)
(***************************************************************************)
\* args.limit || 20
DefaultLimit == 20

effectiveLimit(limit) == IF limit.def /\ limit.val # 0 THEN limit.val ELSE DefaultLimit

\* Array.prototype.slice(start) with one argument: a negative start counts
\* from the end, and the start is clamped to 0..length
slice(xs, start) ==
  SubSeq(xs,
         (IF start < 0 THEN (IF Len(xs) + start < 0 THEN 0 ELSE Len(xs) + start)
          ELSE (IF start > Len(xs) THEN Len(xs) ELSE start)) + 1,
         Len(xs))

\* the scope filter that would compare for equality only
byScopeExact(all, idx, scope) ==
  IF Len(scope) > 0 THEN SelectSeq(idx, LAMBDA i : all[i].scope = scope) ELSE idx

\* results.filter((m) => m.scope === args.scope || m.scope.includes(args.scope))
byScope(all, idx, scope) ==
  IF Len(scope) > 0
  THEN SelectSeq(idx, LAMBDA i : all[i].scope = scope \/ includes(all[i].scope, scope))
  ELSE idx

\* results.filter((m) => m.type === args.type)
byType(all, idx, type) ==
  IF Len(type) > 0 THEN SelectSeq(idx, LAMBDA i : all[i].type = type) ELSE idx

\* the scope and type filters of recall.execute over the indices of the
\* scanned records
recallFiltered(all, a) ==
  byType(all, byScope(all, [i \in 1..Len(all) |-> i], a.scope), a.type)

\* results.map((m) => ({ memory: m, score: scoreMatch(m, words) }))
scoresOf(all, idx, words) ==
  [k \in 1..Len(idx) |->
     [memory |-> idx[k], score |-> scoreMatch(all[idx[k]], words)]]

memoriesOf(scored) == [k \in 1..Len(scored) |-> scored[k].memory]

\* recall.execute from filteredCount on
recallReturn(all, scores, results, limited) ==
  /\ local' = [NoLocal EXCEPT !.all = all, !.scores = scores,
                              !.results = results, !.limited = limited]
  /\ result' = IF Len(limited) = 0
               THEN Result("NoMatchingMemories", 0)
               ELSE [kind |-> "Found", count |-> Len(results),
                     total |-> Len(all),
                     memories |-> [k \in 1..Len(limited) |-> all[limited[k]]]]

\* const limit = args.limit || 20; const limited = results.slice(-limit)
recallLimit(all, scores, results, a) ==
  recallReturn(all, scores, results, slice(results, 0 - effectiveLimit(a.limit)))

\* scored.filter((x) => x.score > 0).sort(desc).map((x) => x.memory)
recallScored(all, scores, a) ==
  recallLimit(all, scores, memoriesOf(sortByScoreDesc(positive(scores))), a)

\* the query step of recall.execute
recallQuery(all, idx, a) ==
  IF Truthy(a.query)
  THEN recallScored(all, scoresOf(all, idx, queryWords(a.query.val)), a)
  ELSE recallLimit(all, <<>>, idx, a)

\* a recall that makes sure the day file of the current date exists
RecallTouching(a, all) ==
  /\ nOps < MaxOps
  /\ nOps' = nOps + 1
  /\ op' = "recall"
  /\ args' = a
  /\ pre' = [files |-> files, audit |-> audit, logs |-> logs,
             sessionInfo |-> sessionInfo]
  /\ files' = [files EXCEPT ![today] = File(textOrEmpty(@))]
  /\ result' = Result("NoMemoriesFound", 0)
  /\ local' = [NoLocal EXCEPT !.all = all]
  /\ UNCHANGED <<dirExists, audit, globOrder, today,
                 logger, sessionAgents, logs, sessionInfo, lookups>>

\* recall.execute; all is what getAllMemories returns; local.scores,
\* local.results and local.limited hold the records as indices into it (the
\* identity of the Memory objects)
Recall(a, all) ==
  /\ nOps < MaxOps
  /\ nOps' = nOps + 1
  /\ op' = "recall"
  /\ args' = a
  /\ pre' = [files |-> files, audit |-> audit, logs |-> logs,
             sessionInfo |-> sessionInfo]
  /\ UNCHANGED <<dirExists, files, audit, globOrder, today,
                 logger, sessionAgents, logs, sessionInfo, lookups>>
  /\ IF Len(all) = 0
     THEN /\ result' = Result("NoMemoriesFound", 0)
          /\ local' = NoLocal
     ELSE recallQuery(all, recallFiltered(all, a), a)

(***************************************************************************)
(* list                                                                    *)
(***************************************************************************)
\* map.set(key, (map.get(key) || 0) + 1) on a Map kept as the sequence of
\* its entries in insertion order
countKey(entries, key) ==
  IF \E k \in 1..Len(entries) : entries[k].key = key
  THEN [k \in 1..Len(entries) |->
          IF entries[k].key = key
          THEN [key |-> key, count |-> entries[k].count + 1]
          ELSE entries[k]]
  ELSE Append(entries, [key |-> key, count |-> 1])

\* scopeTypes.get(scope).add(type) on a Set kept in insertion order
addOnce(items, item) ==
  IF \E k \in 1..Len(items) : items[k] = item THEN items ELSE Append(items, item)

\* the scopes Map after the records from the i-th on
RECURSIVE CountScopes(_, _, _)
CountScopes(memories, i, entries) ==
  IF i > Len(memories) THEN entries
  ELSE CountScopes(memories, i + 1, countKey(entries, memories[i].scope))

\* the types Map after the records from the i-th on
RECURSIVE CountTypes(_, _, _)
CountTypes(memories, i, entries) ==
  IF i > Len(memories) THEN entries
  ELSE CountTypes(memories, i + 1, countKey(entries, memories[i].type))

\* scopeTypes.get(scope): the types seen with scope, in the order seen
RECURSIVE TypesOf(_, _, _, _)
TypesOf(memories, scope, i, items) ==
  IF i > Len(memories) THEN items
  ELSE TypesOf(memories, scope, i + 1,
               IF memories[i].scope = scope THEN addOnce(items, memories[i].type)
               ELSE items)

\* the place of entry e among sorted entries: behind those that count as
\* much or more
InsertByCount(sorted, e) ==
  LET ahead == Cardinality({k \in 1..Len(sorted) : sorted[k].count >= e.count})
  IN SubSeq(sorted, 1, ahead) \o <<e>> \o SubSeq(sorted, ahead + 1, Len(sorted))

RECURSIVE SortCountsFrom(_, _, _)
SortCountsFrom(entries, i, sorted) ==
  IF i > Len(entries) THEN sorted
  ELSE SortCountsFrom(entries, i + 1, InsertByCount(sorted, entries[i]))

\* entries in the order the Map holds them
unsortedEntries(entries) == entries

\* [...map.entries()].sort((a, b) => b[1] - a[1])
sortByCountDesc(entries) == SortCountsFrom(entries, 1, <<>>)

\* what listMemories prints: the total, a line for every scope with its
\* count and types, a line for every type with its count
listSummary(memories) ==
  [total |-> Len(memories),
   scopes |-> [k \in 1..Len(sortByCountDesc(CountScopes(memories, 1, <<>>))) |->
                 [key |-> sortByCountDesc(CountScopes(memories, 1, <<>>))[k].key,
                  count |-> sortByCountDesc(CountScopes(memories, 1, <<>>))[k].count,
                  types |-> TypesOf(memories,
                              sortByCountDesc(CountScopes(memories, 1, <<>>))[k].key,
                              1, <<>>)]],
   types |-> sortByCountDesc(CountTypes(memories, 1, <<>>))]

\* listMemories.execute; all is what getAllMemories returns
ListMemories(all) ==
  /\ nOps < MaxOps
  /\ nOps' = nOps + 1
  /\ op' = "list"
  /\ args' = NoArgs
  /\ pre' = [files |-> files, audit |-> audit, logs |-> logs,
             sessionInfo |-> sessionInfo]
  /\ UNCHANGED <<dirExists, files, audit, globOrder, today,
                 logger, sessionAgents, logs, sessionInfo, lookups>>
  /\ IF Len(all) = 0
     THEN /\ result' = Result("NoMemoriesFound", 0)
          /\ local' = NoLocal
     ELSE /\ result' = Result("Listed", Len(all))
          /\ local' = [NoLocal EXCEPT !.all = all, !.summary = <<listSummary(all)>>]

(***************************************************************************)
(* Clock                                                                   *)
(***************************************************************************)
\* midnight passes: new Date() is on the next calendar day
AdvanceDay ==
  /\ today < MaxDay
  /\ today' = today + 1
  /\ op' = "tick"
  /\ args' = NoArgs
  /\ pre' = [files |-> files, audit |-> audit, logs |-> logs,
             sessionInfo |-> sessionInfo]
  /\ result' = Result("None", 0)
  /\ local' = NoLocal
  /\ UNCHANGED <<dirExists, files, audit, globOrder, nOps,
                 logger, sessionAgents, logs, sessionInfo, lookups>>

(***************************************************************************)
(* Inputs                                                                  *)
(***************************************************************************)
Api == <<"a", "p", "i">>
Fix == <<"f", "i", "x">>

\* records given to remember: with and without issue and tags, a content
\* with a double quote, a content of two lines, a content that reads like an
\* issue and a tags token
RememberInputs ==
  { [NoArgs EXCEPT !.type = Decision, !.scope = Api, !.content = <<"o", "l", "d">>,
                   !.issue = Some(<<"#", "1">>), !.tags = Some(<<Fix, <<"x">>>>)],
    [NoArgs EXCEPT !.type = Context, !.scope = <<"x">>, !.content = <<"a", QUOTE, "b">>,
                   !.tags = Some(<<<<"y">>>>)],
    [NoArgs EXCEPT !.type = Pattern, !.scope = Api,
                   !.content = <<"m">> \o <<NL>> \o <<"n">>],
    [NoArgs EXCEPT !.type = Context, !.scope = <<"x">>,
                   !.content = <<"i", "s", "s", "u", "e", "=",
      "#", "9", " ", "t", "a", "g", "s", "=", "z">>] }

UpdateInputs ==
  { [NoArgs EXCEPT !.type = Context, !.scope = <<"x">>, !.content = <<"n",
      "e", "w">>, !.query = q] :
      q \in {Undefined, Some(Fix), Some(<<"k">>), Some(<<"f", "i",
      "x", " ", "k">>), Some(<<"z", "z">>)} }
  \cup { [NoArgs EXCEPT !.type = Decision, !.scope = Api, !.content = <<"n", "e", "w">>],
         [NoArgs EXCEPT !.type = Decision, !.scope = Api, !.content = <<"q", QUOTE, "r">>],
         [NoArgs EXCEPT !.type = Decision, !.scope = Api, !.content = <<"n", "e", "w">>,
                        !.tags = Some(<<<<"z">>>>)],
         [NoArgs EXCEPT !.type = Decision, !.scope = Api, !.content = <<"n", "e", "w">>,
                        !.issue = Some(<<"#", "2">>)] }

ForgetInputs ==
  { [NoArgs EXCEPT !.type = Decision, !.scope = Api, !.reason = <<"d", "o", "n", "e">>],
    [NoArgs EXCEPT !.type = Decision, !.scope = <<"x">>, !.reason = <<"d", "o", "n", "e">>],
    [NoArgs EXCEPT !.type = Context, !.scope = <<"x">>, !.reason = <<"a", " ", QUOTE, "b", QUOTE>>],
    [NoArgs EXCEPT !.type = Pattern, !.scope = Api, !.reason = <<"d", "o", "n", "e">>] }

\* a day file as left by an earlier run and a hand edit: a record with an
\* unknown extra token, a blank line, a line without scope= whose content
\* mentions one, a line without ts=, a second record of the same scope and
\* type as the first
EditedText ==
  <<"t", "s", "=", "1", "T", "Z", " ", "v", "=", "2", " ", "t",
      "y", "p", "e", "=", "c", "o", "n", "t", "e", "x", "t", " ",
      "s", "c", "o", "p", "e", "=", "x", " ", "c", "o", "n", "t",
      "e", "n", "t", "=", QUOTE, "k", QUOTE, " ", "t", "a", "g",
      "s", "=", "f", "i", "x">> \o <<NL, NL>>
    \o <<"t", "s", "=", "1", "T", "Z", " ", "t", "y", "p", "e",
      "=", "c", "o", "n", "t", "e", "x", "t", " ", "c", "o", "n",
      "t", "e", "n", "t", "=", QUOTE, "s", "c", "o", "p", "e", "=", "x", QUOTE>> \o <<NL>>
    \o <<"t", "y", "p", "e", "=", "c", "o", "n", "t", "e", "x",
      "t", " ", "s", "c", "o", "p", "e", "=", "x">> \o <<NL>>
    \o <<"t", "s", "=", "1", "T", "Z", " ", "t", "y", "p", "e",
      "=", "c", "o", "n", "t", "e", "x", "t", " ", "s", "c", "o",
      "p", "e", "=", "x", " ", "c", "o", "n", "t", "e", "n", "t",
      "=", QUOTE, "f", "i", "x", QUOTE>> \o <<NL>>

\* the enumeration orders of the glob: by name, ascending and descending
GlobOrders == {[i \in Days |-> i], [i \in Days |-> MaxDay + 1 - i]}

(***************************************************************************)
(* Specification of the store                                              *)
(***************************************************************************)
\* the state after MemoryPlugin has run with lg as the logger settings that
\* loadSettings returns
InitWith(lg) ==
  /\ logger = lg
  /\ sessionAgents = EmptyObject
  /\ logs = EmptyObject
  /\ sessionInfo = EmptyObject
  /\ lookups = EmptyObject
  /\ \/ /\ dirExists = FALSE
        /\ files = [d \in Days |-> Absent]
     \/ /\ dirExists = TRUE
        /\ files = [d \in Days |-> IF d = 1 THEN File(EditedText) ELSE Absent]
  /\ audit = Absent
  /\ globOrder \in GlobOrders
  /\ today = 1
  /\ nOps = 0
  /\ op = "init"
  /\ args = NoArgs
  /\ pre = [files |-> files, audit |-> audit, logs |-> logs,
            sessionInfo |-> sessionInfo]
  /\ result = Result("None", 0)
  /\ local = NoLocal

\* no settings file: DEFAULT_SETTINGS
Init == InitWith(DEFAULT_SETTINGS.logger)

\* the store that recall is run against
RecallStoreInputs ==
  { [NoArgs EXCEPT !.type = Decision, !.scope = <<"a", "u", "t",
      "h">>, !.content = <<"l", "o", "g", "i", "n">>],
    [NoArgs EXCEPT !.type = Decision, !.scope = <<"m", "o", "b",
      "i", "l", "e", "-", "a", "u", "t", "h">>,
                   !.content = <<"a", "u", "t", "h", " ", "t", "o", "k", "e", "n">>],
    [NoArgs EXCEPT !.type = Blocker, !.scope = <<"A", "p", "i">>, !.content = <<"F", "i", "x">>,
                   !.tags = Some(<<<<"x">>>>)] }

RecallInputs ==
  { [NoArgs EXCEPT !.scope = s, !.type = t, !.query = q] :
      s \in {<<>>, <<"a", "u", "t", "h">>}, t \in {<<>>, Decision},
      q \in {Undefined, Some(<<"a", "u", "t", "h">>), Some(<<"A",
      "P", "I", " ", " ", "f", "i", "x">>), Some(<<"z", "z">>)} }
  \cup { [NoArgs EXCEPT !.query = q, !.limit = Some(n)] :
           q \in {Undefined, Some(<<"a", "u", "t", "h">>)}, n \in {1, 2, 0, -1} }
  \cup { [NoArgs EXCEPT !.query = Some(<<"x">>), !.limit = Some(n)] : n \in {1, 2} }

UpdateAny(names, dl) == \E a \in UpdateInputs : Update(a, names, dl)
ForgetAny(names, dl) == \E a \in ForgetInputs : Forget(a, names, dl)

DoRemember == \E a \in RememberInputs : Remember(a)
DoUpdate == UpdateAny(globFiles(files, audit, globOrder), dirLines(files))
DoForget == ForgetAny(globFiles(files, audit, globOrder), dirLines(files))

Next == DoRemember \/ DoUpdate \/ DoForget \/ AdvanceDay

Spec == Init /\ [][Next]_vars

(***************************************************************************)
(* Specification of recall over a store filled by remember                 *)
(***************************************************************************)
RecallAny(all) == \E a \in RecallInputs : Recall(a, all)

FillStore == \E a \in RecallStoreInputs : Remember(a)
DoRecall == RecallAny(getAllMemories(dirExists, files, audit, globOrder))

DoListMemories == ListMemories(getAllMemories(dirExists, files, audit, globOrder))

NextRecall == FillStore \/ DoRecall \/ DoListMemories \/ AdvanceDay

SpecRecall == Init /\ [][NextRecall]_vars

(***************************************************************************)
(* Logger settings tool and event hooks                                    *)
(***************************************************************************)
\* setLogger.execute: args.enabled ?? current, args.scopes ?? current.  The
\* persist argument only chooses the settings file that is written as well.
SetLogger(a) ==
  /\ nOps < MaxOps
  /\ nOps' = nOps + 1
  /\ op' = "setLogger"
  /\ args' = a
  /\ pre' = [files |-> files, audit |-> audit, logs |-> logs,
             sessionInfo |-> sessionInfo]
  /\ logger' = [logger EXCEPT
                  !.enabled = IF a.enabled.def THEN a.enabled.val ELSE @,
                  !.scopes = IF a.scopes.def THEN a.scopes.val ELSE @]
  /\ result' = Result("LoggerUpdated", 0)
  /\ local' = NoLocal
  /\ UNCHANGED <<dirExists, files, audit, globOrder, today,
                 sessionAgents, logs, sessionInfo, lookups>>

\* runtime.sessionAgents.get(sessionID)
agentOf(agents, sessionID) ==
  IF sessionID \in DOMAIN agents THEN Some(agents[sessionID]) ELSE Undefined

\* runtime.sessionAgents.set(sessionID, agent)
setAgent(agents, sessionID, agent) ==
  [k \in DOMAIN agents \cup {sessionID} |->
     IF k = sessionID THEN agent ELSE agents[k]]

\* typeof scope === "string" ? scope : "tool"
scopeOrTool(scope) == IF scope.def THEN scope.val ELSE <<"t", "o", "o", "l">>

\* what the three hooks share: the event goes to appendJsonLog under scope
hookLog(name, i, scope, event) ==
  /\ nOps < MaxOps
  /\ nOps' = nOps + 1
  /\ op' = name
  /\ args' = i
  /\ pre' = [files |-> files, audit |-> audit, logs |-> logs,
             sessionInfo |-> sessionInfo]
  /\ logs' = appendJsonLog(logger, logs, scope, event, toISOString(today))
  /\ result' = Result("None", 0)
  /\ local' = [NoLocal EXCEPT !.emitted = Emitted(scope, event)]
  /\ UNCHANGED <<dirExists, files, audit, globOrder, today,
                 logger, sessionInfo, lookups>>

\* the "chat.message" hook
ChatMessage(i) ==
  /\ sessionAgents' = IF Truthy(i.agent)
                      THEN setAgent(sessionAgents, i.sessionID, i.agent.val)
                      ELSE sessionAgents
  /\ hookLog("chat.message", i, <<"c", "h", "a", "t">>,
             buildLoggerEvent(<<"c", "h", "a", "t", "_", "m", "e", "s", "s", "a", "g", "e">>,
               [sessionID |-> i.sessionID, parentSessionID |-> Undefined,
                taskID |-> Undefined, agent |-> i.agent,
                payload |-> [message_id |-> i.payload[1].id,
                             model |-> i.payload[1].model,
                             parts |-> i.payload[1].parts]],
               toISOString(today)))

\* the "tool.execute.before" hook; i.hookScope is output.args?.scope
ToolExecuteBefore(i) ==
  /\ UNCHANGED sessionAgents
  /\ hookLog("tool.execute.before", i, scopeOrTool(i.hookScope),
             buildLoggerEvent(<<"t", "o", "o", "l", "_", "e", "x",
      "e", "c", "u", "t", "e", "_", "b", "e", "f", "o", "r", "e">>,
               [sessionID |-> i.sessionID, parentSessionID |-> Undefined,
                taskID |-> Undefined,
                agent |-> agentOf(sessionAgents, i.sessionID),
                payload |-> [call_id |-> i.payload[1].id,
                             tool |-> i.payload[1].tool,
                             args |-> i.hookScope]],
               toISOString(today)))

\* the "tool.execute.after" hook; i.hookScope is output.metadata?.scope
ToolExecuteAfter(i) ==
  /\ UNCHANGED sessionAgents
  /\ hookLog("tool.execute.after", i, scopeOrTool(i.hookScope),
             buildLoggerEvent(<<"t", "o", "o", "l", "_", "e", "x",
      "e", "c", "u", "t", "e", "_", "a", "f", "t", "e", "r">>,
               [sessionID |-> i.sessionID, parentSessionID |-> Undefined,
                taskID |-> Undefined,
                agent |-> agentOf(sessionAgents, i.sessionID),
                payload |-> [call_id |-> i.payload[1].id,
                             tool |-> i.payload[1].tool,
                             title |-> i.payload[1].title,
                             output |-> i.payload[1].output]],
               toISOString(today)))

\* buildLoggerEvent called by itself, as its export allows
BuildLoggerEvent(i) ==
  /\ nOps < MaxOps
  /\ nOps' = nOps + 1
  /\ op' = "buildLoggerEvent"
  /\ args' = i
  /\ pre' = [files |-> files, audit |-> audit, logs |-> logs,
             sessionInfo |-> sessionInfo]
  /\ result' = Result("None", 0)
  /\ local' = [NoLocal EXCEPT
                 !.built = <<buildLoggerEvent(<<"t", "o", "o",
      "l", "_", "e", "x", "e", "c", "u", "t", "e", "_", "b", "e", "f", "o", "r", "e">>,
                              [sessionID |-> i.sessionID,
                               parentSessionID |-> i.parentSessionID,
                               taskID |-> i.taskID, agent |-> i.agent,
                               payload |-> i.payload[1]],
                              toISOString(today))>>]
  /\ UNCHANGED <<dirExists, files, audit, globOrder, today,
                 logger, sessionAgents, logs, sessionInfo, lookups>>

(***************************************************************************)
(* Inputs of the logger                                                    *)
(***************************************************************************)
SesMain == <<"s", "e", "s", "_", "m", "a", "i", "n">>
SesSub == <<"s", "e", "s", "_", "s", "u", "b">>
SesDeep == <<"s", "e", "s", "_", "d", "e", "e", "p">>
SesGone == <<"s", "e", "s", "_", "g", "o", "n", "e">>
Explore == <<"e", "x", "p", "l", "o", "r", "e">>

\* logger settings that loadSettings may return
LoggerSettings ==
  { DEFAULT_SETTINGS.logger,
    [DEFAULT_SETTINGS.logger EXCEPT !.enabled = TRUE, !.scopes = <<<<"*">>>>],
    [DEFAULT_SETTINGS.logger EXCEPT !.enabled = TRUE, !.scopes = <<Api>>] }

SetLoggerInputs ==
  { [NoArgs EXCEPT !.enabled = SomeBool(TRUE)],
    [NoArgs EXCEPT !.enabled = SomeBool(FALSE)],
    [NoArgs EXCEPT !.scopes = Some(<<>>)],
    [NoArgs EXCEPT !.enabled = SomeBool(TRUE), !.scopes = Some(<<<<"x">>, Api>>)] }

\* the hook fields that are copied into the payload
HookPayload ==
  <<[id |-> Some(<<"i", "d", "_", "1">>), model |-> Some(<<"g", "p", "t">>), parts |-> Some(<<>>),
     tool |-> Some(<<"r", "e", "a", "d">>), title |-> Some(<<"t">>), output |-> Some(<<"o">>)]>>

ChatInputs ==
  { [NoArgs EXCEPT !.sessionID = SesMain, !.payload = HookPayload],
    [NoArgs EXCEPT !.sessionID = SesSub, !.payload = HookPayload],
    [NoArgs EXCEPT !.sessionID = SesSub, !.agent = Some(Explore),
                   !.payload = HookPayload],
    [NoArgs EXCEPT !.sessionID = SesGone, !.payload = HookPayload] }

ToolInputs ==
  { [NoArgs EXCEPT !.sessionID = SesSub, !.payload = HookPayload],
    [NoArgs EXCEPT !.sessionID = SesMain, !.hookScope = Some(Api),
                   !.payload = HookPayload],
    [NoArgs EXCEPT !.sessionID = SesDeep, !.hookScope = Some(<<"x">>),
                   !.payload = HookPayload] }

\* payloads without and with keys of the envelope
BuildInputs ==
  { [NoArgs EXCEPT !.sessionID = <<"s", "e", "s", "_", "1", "2",
      "3">>, !.taskID = Some(<<"t", "a", "s", "k", "_", "7", "7">>),
                   !.agent = Some(<<"c", "o", "d", "e", "x">>),
                   !.payload = <<[tool |-> Some(<<"r", "e", "a", "d">>)]>>],
    [NoArgs EXCEPT !.sessionID = SesDeep, !.parentSessionID = Some(SesSub),
                   !.payload = <<[tool |-> Some(<<"r", "e", "a", "d">>)]>>],
    [NoArgs EXCEPT !.sessionID = SesMain,
                   !.payload = <<[session_id |-> Some(<<"x">>),
                                  ts |-> Some(<<"n", "e", "v", "e", "r">>)]>>] }

LoggedRememberInputs ==
  { [NoArgs EXCEPT !.type = Decision, !.scope = Api, !.content = <<"o", "l", "d">>] }

LoggedUpdateInputs ==
  { [NoArgs EXCEPT !.type = Decision, !.scope = Api, !.content = <<"n", "e", "w">>],
    [NoArgs EXCEPT !.type = Decision, !.scope = <<"z", "z">>, !.content = <<"n", "e", "w">>] }

LoggedForgetInputs ==
  { [NoArgs EXCEPT !.type = Decision, !.scope = Api, !.reason = <<"d", "o", "n", "e">>] }

(***************************************************************************)
(* Specification of the logger                                             *)
(***************************************************************************)
InitLogger == \E lg \in LoggerSettings : InitWith(lg)

DoSetLogger == \E a \in SetLoggerInputs : SetLogger(a)
DoChatMessage == \E i \in ChatInputs : ChatMessage(i)
DoToolExecuteBefore == \E i \in ToolInputs : ToolExecuteBefore(i)
DoToolExecuteAfter == \E i \in ToolInputs : ToolExecuteAfter(i)
DoBuildLoggerEvent == \E i \in BuildInputs : BuildLoggerEvent(i)
LoggedRemember == \E a \in LoggedRememberInputs : Remember(a)
LoggedUpdateAny(names, dl) == \E a \in LoggedUpdateInputs : Update(a, names, dl)
LoggedForgetAny(names, dl) == \E a \in LoggedForgetInputs : Forget(a, names, dl)
LoggedUpdate == LoggedUpdateAny(globFiles(files, audit, globOrder), dirLines(files))
LoggedForget == LoggedForgetAny(globFiles(files, audit, globOrder), dirLines(files))

NextLogger ==
  \/ DoSetLogger
  \/ DoChatMessage
  \/ DoToolExecuteBefore
  \/ DoToolExecuteAfter
  \/ DoBuildLoggerEvent
  \/ LoggedRemember
  \/ LoggedUpdate
  \/ LoggedForget
  \/ AdvanceDay

SpecLogger == InitLogger /\ [][NextLogger]_vars

(***************************************************************************)
(* Session lookup, slug and per-session log files                          *)
(***************************************************************************)
\* the longest slugified title
SlugMax == 60

Letters ==
  {"a", "b", "c", "d", "e", "f", "g", "h", "i", "j", "k", "l", "m",
   "n", "o", "p", "q", "r", "s", "t", "u", "v", "w", "x", "y", "z"}
DecDigits == <<"0", "1", "2", "3", "4", "5", "6", "7", "8", "9">>

\* [a-z0-9]
IsAlnum(c) == c \in Letters \/ \E i \in 1..10 : DecDigits[i] = c

\* replace(/[^a-z0-9]+/g, "-"): the first character of a run becomes the
\* hyphen, the others of the run go
hyphenateRuns(s) ==
  SelectSeq([i \in 1..Len(s) |->
               IF IsAlnum(s[i]) THEN s[i]
               ELSE IF i = 1 \/ IsAlnum(s[i - 1]) THEN "-"
               ELSE "drop"],
            LAMBDA c : c # "drop")

\* replace(/^-|-$/g, "")
trimHyphens(s) ==
  LET from == IF Len(s) > 0 /\ s[1] = "-" THEN 2 ELSE 1
      to == IF Len(s) >= from /\ s[Len(s)] = "-" THEN Len(s) - 1 ELSE Len(s)
  IN SubSeq(s, from, to)

\* slice(0, n)
sliceTo(s, n) == SubSeq(s, 1, IF Len(s) < n THEN Len(s) ELSE n)

\* a slug whose hyphens at the ends are kept
slugifyUntrimmed(text) == sliceTo(hyphenateRuns(toLowerCase(text)), SlugMax)

\* slugify
slugify(text) == sliceTo(trimHyphens(hyphenateRuns(toLowerCase(text))), SlugMax)

\* n in decimal, w digits wide
Padded(n, w) == [i \in 1..w |-> DecDigits[((n \div (10 ^ (w - i))) % 10) + 1]]

\* the civil date of the day that is z days after 0000-03-01
CivilOf(z) ==
  LET era == z \div 146097
      doe == z - era * 146097
      yoe == (doe - doe \div 1460 + doe \div 36524 - doe \div 146096) \div 365
      doy == doe - (365 * yoe + yoe \div 4 - yoe \div 100)
      mp == (5 * doy + 2) \div 153
      m == IF mp < 10 THEN mp + 3 ELSE mp - 9
  IN [y |-> yoe + era * 400 + (IF m <= 2 THEN 1 ELSE 0),
      m |-> m,
      d |-> doy - (153 * mp + 2) \div 5 + 1]

\* new Date(created * 1000).toISOString().split("T")[0]
isoDateOf(created) ==
  LET c == CivilOf(created \div 86400 + 719468)
  IN Padded(c.y, 4) \o <<"-">> \o Padded(c.m, 2) \o <<"-">> \o Padded(c.d, 2)

\* a title whose slugified form has a hyphen as its 60th character
LongTitle == [i \in 1..59 |-> "a"] \o <<" ", "b">>

SesLong == <<"s", "e", "s", "_", "l", "o", "n", "g">>

\* the sessions the host knows: what client.session.get returns for an id.
\* ses_gone is not among them.
SessionTable ==
  [id \in {SesMain, SesSub, SesDeep, SesLong} |->
     CASE id = SesMain ->
            [id |-> id, title |-> <<"F", "i", "x", " ", "A", "u",
      "t", "h", " ", "B", "u", "g", "!", "!">>, parentID |-> Undefined,
             created |-> 1771632000]
       [] id = SesSub ->
            [id |-> id, title |-> <<"-", "-", "A", "P", "I", " ",
      " ", "f", "i", "x">>, parentID |-> Some(SesMain),
             created |-> 1771718399]
       [] id = SesDeep ->
            [id |-> id, title |-> <<"d", "e", "e", "p">>, parentID |-> Some(SesSub),
             created |-> 1771718400]
       [] OTHER ->
            [id |-> id, title |-> LongTitle, parentID |-> Undefined,
             created |-> 951782400]]

\* the ways one call of client.session.get may end: it throws, or (for a
\* session the host knows) returns the session
LookupOutcomes(id) ==
  {[ok |-> FALSE, data |-> <<>>]}
    \cup (IF id \in DOMAIN SessionTable
          THEN {[ok |-> TRUE, data |-> <<SessionTable[id]>>]} ELSE {})

\* the SessionInfo of a session that was looked up
infoOf(session) ==
  [id |-> session.id, title |-> session.title, parentID |-> session.parentID,
   slug |-> isoDateOf(session.created) \o <<"-">> \o slugify(session.title)]

\* the SessionInfo made when the lookup throws
fallbackInfo(sessionID) ==
  [id |-> sessionID, title |-> sessionID, parentID |-> Undefined,
   slug |-> sessionID]

\* runtime.sessionInfo.set(sessionID, info)
cachePut(cache, sessionID, info) ==
  [k \in DOMAIN cache \cup {sessionID} |->
     IF k = sessionID THEN info ELSE cache[k]]

\* one more call of client.session.get for sessionID
counted(calls, sessionID) ==
  [k \in DOMAIN calls \cup {sessionID} |->
     IF k \notin DOMAIN calls THEN 1
     ELSE IF k = sessionID THEN calls[k] + 1 ELSE calls[k]]

\* a lookup that caches successes only
getSessionInfoRetry(r, sessionID, outcome) ==
  [info |-> IF outcome.ok THEN infoOf(outcome.data[1]) ELSE fallbackInfo(sessionID),
   cache |-> IF outcome.ok THEN cachePut(r.cache, sessionID, infoOf(outcome.data[1]))
             ELSE r.cache,
   calls |-> counted(r.calls, sessionID)]

\* getSessionInfo on a cache miss: the lookup ends with outcome
getSessionInfoMiss(r, sessionID, outcome) ==
  LET info == IF outcome.ok THEN infoOf(outcome.data[1])
              ELSE fallbackInfo(sessionID)
  IN [info |-> info,
      cache |-> cachePut(r.cache, sessionID, info),
      calls |-> counted(r.calls, sessionID)]

\* getSessionInfo; r holds the cache and the calls made so far, and the
\* result holds the SessionInfo returned with the cache and calls after it
getSessionInfo(r, sessionID, outcome) ==
  IF sessionID \in DOMAIN r.cache
  THEN [info |-> r.cache[sessionID], cache |-> r.cache, calls |-> r.calls]
  ELSE getSessionInfoMiss(r, sessionID, outcome)

\* ${sessionSlug}/${filename}: own and parent are the SessionInfo of the
\* session and of the session its directory is named after
sessionFile(sessionID, own, parent, agents) ==
  IF Truthy(own.parentID)
  THEN parent.slug \o <<"/">>
         \o (IF Truthy(agentOf(agents, sessionID))
             THEN agents[sessionID] ELSE <<"s", "u", "b", "a", "g", "e", "n", "t">>)
         \o <<"-">> \o own.id \o <<".", "j", "s", "o", "n", "l">>
  ELSE own.slug \o <<"/", "m", "a", "i", "n", ".", "j", "s", "o", "n", "l">>

\* ${memoryDir}/sessions/
sessionsDir == DEFAULT_SETTINGS.memoryDir \o <<"/", "s", "e", "s", "s", "i", "o", "n", "s", "/">>

\* appendSessionLog once the session is resolved as own: the parent is
\* resolved when there is one, and the line goes to the file of the session
appendResolved(fs, own, sessionID, agents, payload, outcome) ==
  LET parent == IF Truthy(own.info.parentID)
                THEN getSessionInfo(own, own.info.parentID.val, outcome)
                ELSE own
  IN [cache |-> parent.cache,
      calls |-> parent.calls,
      logs |-> appendLine(fs,
                 sessionsDir \o sessionFile(sessionID, own.info, parent.info, agents),
                 payload)]

\* appendSessionLog; o1 and o2 are the outcomes of the lookups of the
\* session and of its parent, should they be made
appendSessionLog(lg, fs, r, sessionID, agents, payload, o1, o2) ==
  IF ~lg.enabled THEN [cache |-> r.cache, calls |-> r.calls, logs |-> fs]
  ELSE appendResolved(fs, getSessionInfo(r, sessionID, o1), sessionID, agents,
                      payload, o2)

\* getSessionInfo called by itself
ResolveSession(sessionID, found) ==
  /\ nOps < MaxOps
  /\ nOps' = nOps + 1
  /\ op' = "getSessionInfo"
  /\ args' = [NoArgs EXCEPT !.sessionID = sessionID]
  /\ pre' = [files |-> files, audit |-> audit, logs |-> logs,
             sessionInfo |-> sessionInfo]
  /\ sessionInfo' = found.cache
  /\ lookups' = found.calls
  /\ result' = Result("None", 0)
  /\ local' = [NoLocal EXCEPT !.info = <<found.info>>]
  /\ UNCHANGED <<dirExists, files, audit, globOrder, today,
                 logger, sessionAgents, logs>>

\* what the session hooks share: own is the session as the hook resolved
\* it, event the event built from it, and o the outcomes of later lookups
sessionLog(name, i, agents, own, event, out) ==
  /\ nOps < MaxOps
  /\ nOps' = nOps + 1
  /\ op' = name
  /\ args' = i
  /\ pre' = [files |-> files, audit |-> audit, logs |-> logs,
             sessionInfo |-> sessionInfo]
  /\ sessionAgents' = agents
  /\ sessionInfo' = out.cache
  /\ lookups' = out.calls
  /\ logs' = out.logs
  /\ result' = Result("None", 0)
  /\ local' = [NoLocal EXCEPT !.info = <<own.info>>,
                              !.emitted = Emitted(<<>>, event)]
  /\ UNCHANGED <<dirExists, files, audit, globOrder, today, logger>>

sessionEvent(name, i, agents, own, event, o1, o2) ==
  sessionLog(name, i, agents, own, event,
             appendSessionLog(logger, logs, own, i.sessionID, agents, event, o1, o2))

\* the "chat.message" hook over the session files
sessionChat(i, agents, own, o1, o2) ==
  sessionEvent("chat.message", i, agents, own,
    buildLoggerEvent(<<"c", "h", "a", "t", "_", "m", "e", "s", "s", "a", "g", "e">>,
      [sessionID |-> i.sessionID, parentSessionID |-> orNull(own.info.parentID),
       taskID |-> Undefined, agent |-> i.agent,
       payload |-> [message_id |-> i.payload[1].id,
                    model |-> i.payload[1].model,
                    parts |-> i.payload[1].parts]],
      toISOString(today)),
    o1, o2)

SessionChatMessage(i, o1, o2) ==
  sessionChat(i,
              IF Truthy(i.agent)
              THEN setAgent(sessionAgents, i.sessionID, i.agent.val)
              ELSE sessionAgents,
              getSessionInfo([cache |-> sessionInfo, calls |-> lookups],
                             i.sessionID, o1),
              o1, o2)

\* the "tool.execute.before" hook over the session files
sessionTool(i, own, o1, o2) ==
  sessionEvent("tool.execute.before", i, sessionAgents, own,
    buildLoggerEvent(<<"t", "o", "o", "l", "_", "e", "x", "e",
      "c", "u", "t", "e", "_", "b", "e", "f", "o", "r", "e">>,
      [sessionID |-> i.sessionID, parentSessionID |-> orNull(own.info.parentID),
       taskID |-> Undefined, agent |-> agentOf(sessionAgents, i.sessionID),
       payload |-> [call_id |-> i.payload[1].id,
                    tool |-> i.payload[1].tool,
                    args |-> i.hookScope]],
      toISOString(today)),
    o1, o2)

SessionToolExecuteBefore(i, o1, o2) ==
  sessionTool(i,
              getSessionInfo([cache |-> sessionInfo, calls |-> lookups],
                             i.sessionID, o1),
              o1, o2)

(***************************************************************************)
(* Specification of the session files                                      *)
(***************************************************************************)
SessionIds == {SesMain, SesSub, SesDeep, SesLong, SesGone}

\* the outcomes of the lookup of the parent of a session
ParentOutcomes(id) ==
  IF id \in DOMAIN SessionTable /\ Truthy(SessionTable[id].parentID)
  THEN LookupOutcomes(SessionTable[id].parentID.val)
  ELSE {[ok |-> FALSE, data |-> <<>>]}

DoResolveSession ==
  \E id \in SessionIds : \E o \in LookupOutcomes(id) :
    ResolveSession(id, getSessionInfo([cache |-> sessionInfo, calls |-> lookups],
                                     id, o))

DoSessionChatMessage ==
  \E i \in ChatInputs :
    \E o1 \in LookupOutcomes(i.sessionID), o2 \in ParentOutcomes(i.sessionID) :
      SessionChatMessage(i, o1, o2)

DoSessionToolExecuteBefore ==
  \E i \in ToolInputs :
    \E o1 \in LookupOutcomes(i.sessionID), o2 \in ParentOutcomes(i.sessionID) :
      SessionToolExecuteBefore(i, o1, o2)

NextSessions ==
  \/ DoResolveSession
  \/ DoSessionChatMessage
  \/ DoSessionToolExecuteBefore
  \/ DoSetLogger

SpecSessions == InitLogger /\ [][NextSessions]_vars

(***************************************************************************)
(* The tools step by step                                                  *)
(***************************************************************************)
\* remember, update and forget are async functions: every await is a point
\* where another call can run and where the I/O can reject.  local.calls
\* holds, for every caller, the local variables of its call and the await
\* it stands at.  A file is read (exists and text) in one step and written
\* in one step.

\* the callers whose calls can overlap
Callers == {1, 2}

\* pre: the day files and the audit file when the call was made; names, i:
\* the files array and the position of the loop over it; existing: the text
\* read last, or the text about to be written; k: the position in
\* deletedMemories; logged: the lines of the event log file as read
NoCall ==
  [op |-> "none", pc |-> "idle", status |-> "none", args |-> NoArgs,
   pre |-> [files |-> <<>>, audit |-> Absent],
   names |-> <<>>, i |-> 0, existing |-> <<>>, target |-> <<>>,
   deleted |-> <<>>, k |-> 0, logged |-> <<>>, result |-> Result("None", 0)]

at(c, o, pc) == local.calls[c].op = o /\ local.calls[c].pc = pc

setCall(c, call) == local' = [local EXCEPT !.calls[c] = call]

\* the call returns r
returned(call, r) ==
  [call EXCEPT !.pc = "idle", !.status = "returned", !.result = r]

\* what no step of a tool touches
stepFrame ==
  UNCHANGED <<globOrder, today, op, args, pre, result,
              logger, sessionAgents, sessionInfo, lookups>>

\* the first await of each tool
firstStep(o) == IF o = "remember" THEN "ensureDir" ELSE "scan"

\* a tool is called with arguments a
Invoke(c, o, a) ==
  /\ local.calls[c].pc = "idle"
  /\ nOps < MaxOps
  /\ nOps' = nOps + 1
  /\ setCall(c, [NoCall EXCEPT !.op = o, !.args = a, !.status = "running",
                               !.pc = firstStep(o),
                               !.pre = [files |-> files, audit |-> audit]])
  /\ UNCHANGED <<dirExists, files, audit, logs>>
  /\ stepFrame

\* remember.execute: await ensureDir(memoryDir)
RememberEnsureDir ==
  \E c \in Callers :
    /\ at(c, "remember", "ensureDir")
    /\ dirExists' = TRUE
    /\ setCall(c, [local.calls[c] EXCEPT !.pc = "read"])
    /\ UNCHANGED <<files, audit, logs, nOps>>
    /\ stepFrame

\* const existing = (await file.exists()) ? await file.text() : ""
RememberRead ==
  \E c \in Callers :
    /\ at(c, "remember", "read")
    /\ setCall(c, [local.calls[c] EXCEPT
                     !.pc = "write", !.i = today,
                     !.existing = textOrEmpty(files[today])])
    /\ UNCHANGED <<dirExists, files, audit, logs, nOps>>
    /\ stepFrame

\* a write that reads the file again when it writes
writeAppended(fs, call, line) ==
  [d \in Days |-> IF d = call.i THEN File(textOrEmpty(fs[d]) \o line) ELSE fs[d]]

\* await Bun.write(file, existing + line): the whole file is written
writeExisting(fs, call, line) ==
  [d \in Days |-> IF d = call.i THEN File(call.existing \o line) ELSE fs[d]]

RememberWrite ==
  \E c \in Callers :
    /\ at(c, "remember", "write")
    /\ files' = writeExisting(files, local.calls[c],
                              rememberLine(local.calls[c].args, toISOString(today)))
    /\ setCall(c, [local.calls[c] EXCEPT !.pc = "log"])
    /\ UNCHANGED <<dirExists, audit, logs, nOps>>
    /\ stepFrame

\* an update that rewrites the day file before it writes the audit line
updateThenRewriteFirst(pc) ==
  IF pc = "scan" THEN "reread"
  ELSE IF pc = "reread" THEN "rewrite"
  ELSE IF pc = "rewrite" THEN "audit"
  ELSE "log"

\* the awaits of update.execute after the selection, in their order:
\* logDeletion, file.text(), Bun.write, appendJsonLog
updateThen(pc) ==
  IF pc = "scan" THEN "audit"
  ELSE IF pc = "audit" THEN "reread"
  ELSE IF pc = "reread" THEN "rewrite"
  ELSE "log"

\* the selection of update.execute over the directory as scanned now
scanSelect(a) ==
  updateSelect(updateMatches(dirLines(files), globFiles(files, audit, globOrder),
                             a.scope, a.type), a)

\* update.execute up to the selection of the target: the early returns, or
\* the target with the line index of the scan
UpdateScan ==
  \E c \in Callers :
    /\ at(c, "update", "scan")
    /\ setCall(c,
         IF ~dirExists \/ Len(globFiles(files, audit, globOrder)) = 0
         THEN returned(local.calls[c], Result("NoMemoryFiles", 0))
         ELSE IF scanSelect(local.calls[c].args).kind # "Updated"
         THEN returned(local.calls[c],
                       Result(scanSelect(local.calls[c].args).kind,
                              scanSelect(local.calls[c].args).count))
         ELSE [local.calls[c] EXCEPT
                 !.pc = updateThen("scan"),
                 !.target = scanSelect(local.calls[c].args).target])
    /\ UNCHANGED <<dirExists, files, audit, logs, nOps>>
    /\ stepFrame

\* await logDeletion(target.memory, `Updated to: ${args.content}`)
UpdateAudit ==
  \E c \in Callers :
    /\ at(c, "update", "audit")
    /\ audit' = logDeletion(audit, local.calls[c].target[1].memory,
                            UpdatedTo \o local.calls[c].args.content,
                            toISOString(today))
    /\ setCall(c, [local.calls[c] EXCEPT !.pc = updateThen("audit")])
    /\ UNCHANGED <<dirExists, files, logs, nOps>>
    /\ stepFrame

\* const text = await file.text() of the target's file
UpdateReread ==
  \E c \in Callers :
    /\ at(c, "update", "reread")
    /\ setCall(c, [local.calls[c] EXCEPT
                     !.pc = updateThen("reread"),
                     !.existing = files[local.calls[c].target[1].day].text])
    /\ UNCHANGED <<dirExists, files, audit, logs, nOps>>
    /\ stepFrame

\* lines[target.lineIndex] = newLine; await Bun.write(filepath, ...)
UpdateRewrite ==
  \E c \in Callers :
    /\ at(c, "update", "rewrite")
    /\ files' = [files EXCEPT ![local.calls[c].target[1].day] =
                   File(rewriteLine(local.calls[c].existing,
                                    local.calls[c].target[1].lineIndex,
                                    updateLine(local.calls[c].args,
                                               local.calls[c].target[1].memory,
                                               toISOString(today))))]
    /\ setCall(c, [local.calls[c] EXCEPT !.pc = updateThen("rewrite")])
    /\ UNCHANGED <<dirExists, audit, logs, nOps>>
    /\ stepFrame

\* the next entry of files from the i-th on that is not deletions.logfmt
nextDayFile(names, i) ==
  IF \E j \in i..Len(names) : ~names[j].deletions
  THEN CHOOSE j \in i..Len(names) :
         ~names[j].deletions /\ \A n \in i..(j - 1) : names[n].deletions
  ELSE Len(names) + 1

\* the loop of forget.execute goes on with the i-th file, or is over
forgetNext(call, i) ==
  [call EXCEPT !.i = i,
               !.pc = IF i <= Len(call.names) THEN "read"
                      ELSE IF Len(call.deleted) > 0 THEN "audit"
                      ELSE "log",
               !.k = 1]

\* forget.execute up to the loop over the files
ForgetScan ==
  \E c \in Callers :
    /\ at(c, "forget", "scan")
    /\ setCall(c,
         IF ~dirExists \/ Len(globFiles(files, audit, globOrder)) = 0
         THEN returned(local.calls[c], Result("NoMemoryFiles", 0))
         ELSE forgetNext([local.calls[c] EXCEPT
                            !.names = globFiles(files, audit, globOrder)],
                         nextDayFile(globFiles(files, audit, globOrder), 1)))
    /\ UNCHANGED <<dirExists, files, audit, logs, nOps>>
    /\ stepFrame

\* one file of the loop read and filtered: deletedMemories grows, and the
\* file is written next when lines went
forgetFiltered(call, fl, scope, type) ==
  IF Len(keptIndices(fl.memories, scope, type)) # Len(fl.lines)
  THEN [call EXCEPT
          !.pc = "write",
          !.deleted = call.deleted
                        \o forgetRemoved(fl.memories,
                                         goneIndices(fl.memories, scope, type)),
          !.existing = forgetFile(File(<<>>), fl, scope, type).text]
  ELSE forgetNext(call, nextDayFile(call.names, call.i + 1))

\* const text = await file.text(); const filtered = lines.filter(...)
ForgetRead ==
  \E c \in Callers :
    /\ at(c, "forget", "read")
    /\ setCall(c, forgetFiltered(local.calls[c],
                    fileLines(files[local.calls[c].names[local.calls[c].i].day]),
                    local.calls[c].args.scope, local.calls[c].args.type))
    /\ UNCHANGED <<dirExists, files, audit, logs, nOps>>
    /\ stepFrame

\* await Bun.write(filepath, filtered.join("\n"))
ForgetWrite ==
  \E c \in Callers :
    /\ at(c, "forget", "write")
    /\ files' = [files EXCEPT ![local.calls[c].names[local.calls[c].i].day] =
                   File(local.calls[c].existing)]
    /\ setCall(c, forgetNext(local.calls[c],
                             nextDayFile(local.calls[c].names,
                                         local.calls[c].i + 1)))
    /\ UNCHANGED <<dirExists, audit, logs, nOps>>
    /\ stepFrame

\* for (const memory of deletedMemories) await logDeletion(memory, reason)
ForgetAudit ==
  \E c \in Callers :
    /\ at(c, "forget", "audit")
    /\ audit' = logDeletion(audit, local.calls[c].deleted[local.calls[c].k],
                            local.calls[c].args.reason, toISOString(today))
    /\ setCall(c, [local.calls[c] EXCEPT
                     !.k = local.calls[c].k + 1,
                     !.pc = IF local.calls[c].k + 1 > Len(local.calls[c].deleted)
                            THEN "log" ELSE "audit"])
    /\ UNCHANGED <<dirExists, files, logs, nOps>>
    /\ stepFrame

\* the payload each tool hands to appendJsonLog
toolEvent(call, now) ==
  IF call.op = "remember" THEN rememberEvent(call.args, now)
  ELSE IF call.op = "update" THEN updateEvent(call.args, now)
  ELSE forgetEvent(call.args, now)

\* the message each tool returns after appendJsonLog
toolResult(call) ==
  IF call.op = "remember" THEN Result("Remembered", 0)
  ELSE IF call.op = "update" THEN Result("Updated", 0)
  ELSE IF Len(call.deleted) = 0 THEN Result("NotFound", 0)
  ELSE Result("Deleted", Len(call.deleted))

\* Bun.write(file, existing + JSON.stringify(payload) + "\n") with the
\* existing lines as read before
writeLine(fs, path, existing, payload) ==
  [p \in DOMAIN fs \cup {path} |->
     IF p = path THEN Append(existing, payload) ELSE fs[p]]

\* await appendJsonLog(args.scope, {...}) up to the read of the log file:
\* a scope that is not logged makes it return at once, and the tool returns
LogRead ==
  \E c \in Callers :
    /\ local.calls[c].pc = "log"
    /\ setCall(c,
         IF ~shouldLogScope(logger, local.calls[c].args.scope)
         THEN returned(local.calls[c], toolResult(local.calls[c]))
         ELSE [local.calls[c] EXCEPT
                 !.pc = "logWrite",
                 !.logged = IF logFile(logger, toISOString(today)) \in DOMAIN logs
                            THEN logs[logFile(logger, toISOString(today))]
                            ELSE <<>>])
    /\ UNCHANGED <<dirExists, files, audit, logs, nOps>>
    /\ stepFrame

\* the write of appendJsonLog, then the return of the tool
LogWrite ==
  \E c \in Callers :
    /\ local.calls[c].pc = "logWrite"
    /\ logs' = writeLine(logs, logFile(logger, toISOString(today)),
                         local.calls[c].logged,
                         toolEvent(local.calls[c], toISOString(today)))
    /\ setCall(c, returned(local.calls[c], toolResult(local.calls[c])))
    /\ UNCHANGED <<dirExists, files, audit, nOps>>
    /\ stepFrame

\* the await the call stands at rejects: the exception leaves execute, and
\* nothing of the call runs any more (appendJsonLog does no I/O when the
\* scope is not logged)
IOFailure ==
  \E c \in Callers :
    /\ local.calls[c].pc # "idle"
    /\ local.calls[c].pc = "log" => shouldLogScope(logger, local.calls[c].args.scope)
    /\ setCall(c, [local.calls[c] EXCEPT !.pc = "idle", !.status = "failed"])
    /\ UNCHANGED <<dirExists, files, audit, logs, nOps>>
    /\ stepFrame

\* the day file the calls run against: three records remembered on day 1
StepStore ==
  rememberLine([NoArgs EXCEPT !.type = Decision, !.scope = Api, !.content = <<"o", "l", "d">>,
                              !.tags = Some(<<Fix>>)], toISOString(1))
    \o rememberLine([NoArgs EXCEPT !.type = Context, !.scope = <<"x">>,
                                   !.content = <<"k">>, !.issue = Some(<<"#", "1">>)],
                    toISOString(1))
    \o rememberLine([NoArgs EXCEPT !.type = Pattern, !.scope = Api,
                                   !.content = <<"m">>], toISOString(1))

StepInputs ==
  { <<"remember", [NoArgs EXCEPT !.type = Learning, !.scope = Api,
                                 !.content = <<"n">>]>>,
    <<"update", [NoArgs EXCEPT !.type = Context, !.scope = <<"x">>,
                               !.content = <<"n", "e", "w">>]>>,
    <<"forget", [NoArgs EXCEPT !.type = Decision, !.scope = Api,
                               !.reason = <<"d", "o", "n", "e">>]>> }

DoInvoke == \E c \in Callers, inp \in StepInputs : Invoke(c, inp[1], inp[2])

\* the plugin started on the store, the logger on for the scope api
InitSteps ==
  /\ logger = [DEFAULT_SETTINGS.logger EXCEPT !.enabled = TRUE, !.scopes = <<Api>>]
  /\ sessionAgents = EmptyObject
  /\ logs = EmptyObject
  /\ sessionInfo = EmptyObject
  /\ lookups = EmptyObject
  /\ dirExists = TRUE
  /\ files = [d \in Days |-> IF d = 1 THEN File(StepStore) ELSE Absent]
  /\ audit = Absent
  /\ globOrder = [i \in Days |-> i]
  /\ today = 1
  /\ nOps = 0
  /\ op = "init"
  /\ args = NoArgs
  /\ pre = [files |-> files, audit |-> audit, logs |-> logs,
            sessionInfo |-> sessionInfo]
  /\ result = Result("None", 0)
  /\ local = [NoLocal EXCEPT !.calls = [c \in Callers |-> NoCall]]

NextSteps ==
  \/ DoInvoke
  \/ RememberEnsureDir \/ RememberRead \/ RememberWrite
  \/ UpdateScan \/ UpdateAudit \/ UpdateReread \/ UpdateRewrite
  \/ ForgetScan \/ ForgetRead \/ ForgetWrite \/ ForgetAudit
  \/ LogRead \/ LogWrite
  \/ IOFailure

SpecSteps == InitSteps /\ [][NextSteps]_vars

(***************************************************************************)
(* The session hooks step by step                                          *)
(***************************************************************************)
\* getSessionInfo and appendSessionLog are async functions: a hook stands at
\* the await of client.session.get while another hook runs.  local.calls
\* holds, for every caller, the hook it runs: the session it is resolving
\* (asking), and the SessionInfo of the session and of its parent once it
\* has them.
NoHook ==
  [op |-> "none", pc |-> "idle", status |-> "none", args |-> NoArgs,
   asking |-> <<>>, own |-> <<>>, parent |-> <<>>]

\* what no step of a hook touches
hookFrame ==
  UNCHANGED <<dirExists, files, audit, globOrder, today, op, args, pre, result,
              logger, sessionAgents>>

\* a tool.execute.before hook is called for session id
HookStart(c, id) ==
  /\ local.calls[c].pc = "idle"
  /\ nOps < MaxOps
  /\ nOps' = nOps + 1
  /\ setCall(c, [NoHook EXCEPT !.op = "tool.execute.before", !.status = "running",
                               !.pc = "check", !.asking = id,
                               !.args = [NoArgs EXCEPT !.sessionID = id]])
  /\ UNCHANGED <<logs, sessionInfo, lookups>>
  /\ hookFrame

\* the hook has the SessionInfo it asked for: that of its session, after
\* which it asks for the parent when there is one, or that of the parent
resolved(call, info) ==
  IF Len(call.own) = 0
  THEN IF Truthy(info.parentID)
       THEN [call EXCEPT !.own = <<info>>, !.asking = info.parentID.val,
                         !.pc = "check"]
       ELSE [call EXCEPT !.own = <<info>>, !.parent = <<info>>, !.pc = "append"]
  ELSE [call EXCEPT !.parent = <<info>>, !.pc = "append"]

\* const cached = runtime.sessionInfo.get(sessionID); if (cached) return
\* cached; otherwise client.session.get is called and awaited
CacheCheck ==
  \E c \in Callers :
    /\ local.calls[c].pc = "check"
    /\ IF local.calls[c].asking \in DOMAIN sessionInfo
       THEN /\ setCall(c, resolved(local.calls[c],
                                   sessionInfo[local.calls[c].asking]))
            /\ UNCHANGED lookups
       ELSE /\ setCall(c, [local.calls[c] EXCEPT !.pc = "lookup"])
            /\ lookups' = counted(lookups, local.calls[c].asking)
    /\ UNCHANGED <<logs, sessionInfo, nOps>>
    /\ hookFrame

\* client.session.get has returned or thrown: runtime.sessionInfo.set
LookupEnds ==
  \E c \in Callers : \E o \in LookupOutcomes(local.calls[c].asking) :
    /\ local.calls[c].pc = "lookup"
    /\ sessionInfo' = cachePut(sessionInfo, local.calls[c].asking,
                               IF o.ok THEN infoOf(o.data[1])
                               ELSE fallbackInfo(local.calls[c].asking))
    /\ setCall(c, resolved(local.calls[c],
                           IF o.ok THEN infoOf(o.data[1])
                           ELSE fallbackInfo(local.calls[c].asking)))
    /\ UNCHANGED <<logs, lookups, nOps>>
    /\ hookFrame

\* the rest of appendSessionLog: the line goes to the file of the session
HookAppend ==
  \E c \in Callers :
    /\ local.calls[c].pc = "append"
    /\ logs' = appendLine(logs,
                 sessionsDir \o sessionFile(local.calls[c].args.sessionID,
                                            local.calls[c].own[1],
                                            local.calls[c].parent[1], sessionAgents),
                 buildLoggerEvent(<<"t", "o", "o", "l", "_", "e",
      "x", "e", "c", "u", "t", "e", "_", "b", "e", "f", "o", "r", "e">>,
                   [sessionID |-> local.calls[c].args.sessionID,
                    parentSessionID |-> orNull(local.calls[c].own[1].parentID),
                    taskID |-> Undefined,
                    agent |-> agentOf(sessionAgents, local.calls[c].args.sessionID),
                    payload |-> EmptyObject],
                   toISOString(today)))
    /\ setCall(c, [local.calls[c] EXCEPT !.pc = "idle", !.status = "returned"])
    /\ UNCHANGED <<sessionInfo, lookups, nOps>>
    /\ hookFrame

DoHookStart == \E c \in Callers, id \in {SesMain, SesSub, SesGone} : HookStart(c, id)

\* the plugin started with the logger on for every scope
InitOverlap ==
  /\ logger = [DEFAULT_SETTINGS.logger EXCEPT !.enabled = TRUE]
  /\ sessionAgents = EmptyObject
  /\ logs = EmptyObject
  /\ sessionInfo = EmptyObject
  /\ lookups = EmptyObject
  /\ dirExists = TRUE
  /\ files = [d \in Days |-> IF d = 1 THEN File(EditedText) ELSE Absent]
  /\ audit = Absent
  /\ globOrder = [i \in Days |-> i]
  /\ today = 1
  /\ nOps = 0
  /\ op = "init"
  /\ args = NoArgs
  /\ pre = [files |-> files, audit |-> audit, logs |-> logs,
            sessionInfo |-> sessionInfo]
  /\ result = Result("None", 0)
  /\ local = [NoLocal EXCEPT !.calls = [c \in Callers |-> NoHook]]

NextOverlap == DoHookStart \/ CacheCheck \/ LookupEnds \/ HookAppend

SpecOverlap == InitOverlap /\ [][NextOverlap]_vars

(***************************************************************************)
(* Properties                                                              *)
(*                                                                         *)
(* The properties speak about the state a tool call leaves: op, args and   *)
(* result say which call it was, pre holds the files as they were before   *)
(* it, local the values of its local variables.                            *)
(***************************************************************************)
\* the lines of the day files before the last call, with their decodings
preLines(p) == dirLines(p.files)

\* a record of exactly the scope and the type given
Matching(m, scope, type) == ~m.isNull /\ m.scope = scope /\ m.type = type

\* the positions <<day, line index>> of the lines of dl whose decoded record
\* has exactly that scope and type
MatchSet(dl, scope, type) ==
  UNION {{<<d, i>> : i \in {j \in 1..Len(dl[d].memories) :
                              Matching(dl[d].memories[j], scope, type)}} :
         d \in Days}

\* the number of records a scan of dl returns
RecordCount(dl) ==
  Cardinality(UNION {{<<d, i>> : i \in {j \in 1..Len(dl[d].memories) :
                                         ~dl[d].memories[j].isNull}} :
                     d \in Days})

\* every line of every day file but those at the positions in ps is the same
\* in dlPre and dlPost, and no file gained or lost a line
SameLinesBut(dlPre, dlPost, ps) ==
  \A d \in Days :
    /\ Len(dlPost[d].lines) = Len(dlPre[d].lines)
    /\ \A i \in 1..Len(dlPre[d].lines) :
         <<d, i>> \notin ps => dlPost[d].lines[i] = dlPre[d].lines[i]

(***************************************************************************)
(* C1                                                                      *)
(***************************************************************************)
\* a scope, issue or tag value without whitespace or commas
WellFormedToken(s) ==
  Len(s) > 0 /\ \A i \in 1..Len(s) : ~IsSpace(s[i]) /\ s[i] # ","

WellFormedRecord(r) ==
  /\ r.type \in MemoryTypes
  /\ WellFormedToken(r.scope)
  /\ r.issue.def => WellFormedToken(r.issue.val)
  /\ r.tags.def => /\ Len(r.tags.val) > 0
                   /\ \A k \in 1..Len(r.tags.val) : WellFormedToken(r.tags.val[k])

\* the record the last remember or successful update encoded: for update the
\* issue and tags left unspecified are those of the superseded record
WrittenRecord ==
  IF op = "remember" THEN args
  ELSE [args EXCEPT
          !.issue = IF args.issue.def THEN args.issue
                    ELSE local.target[1].memory.issue,
          !.tags = IF args.tags.def THEN args.tags
                   ELSE local.target[1].memory.tags]

\* the line it wrote, without the newline
WrittenLine ==
  IF op = "remember"
  THEN SubSeq(files[today].text, Len(textOrEmpty(pre.files[today])) + 1,
              Len(files[today].text) - 1)
  ELSE split(files[local.target[1].day].text, NL)[local.target[1].lineIndex]

\* the line that encodes a decoded record
encode(m) == SubSeq(rememberLine(m, m.ts), 1, Len(rememberLine(m, m.ts)) - 1)

RoundTripOf(m, line, r) ==
  /\ ~m.isNull
  /\ m.type = r.type
  /\ m.scope = r.scope
  /\ m.content = r.content
  /\ m.issue = r.issue
  /\ m.tags = r.tags
  /\ encode(m) = line

RoundTrip(line, r) == RoundTripOf(parseLine(line), line, r)

\* C1: for every well-formed record, decoding the line that remember or
\* update writes for it yields the same type, scope, content, issue and
\* tags, and encoding the decoded record gives the same line again.
C1_RoundTrip ==
  ((op = "remember" \/ (op = "update" /\ result.kind = "Updated"))
     /\ WellFormedRecord(WrittenRecord))
    => RoundTrip(WrittenLine, WrittenRecord)

(***************************************************************************)
(* C2                                                                      *)
(***************************************************************************)
\* the line carries a whitespace-delimited token key=value with a non-empty
\* value
HasToken(line, key) ==
  \E i \in 1..(Len(line) - Len(key)) :
    /\ OccursAt(line, key, i)
    /\ i = 1 \/ IsSpace(line[i - 1])
    /\ ~IsSpace(line[i + Len(key)])

WellFormedLine(line) ==
  HasToken(line, TsKey) /\ HasToken(line, TypeKey) /\ HasToken(line, ScopeKey)

WellFormedCount(dl) ==
  Cardinality(UNION {{<<d, i>> : i \in {j \in 1..Len(dl[d].lines) :
                                         WellFormedLine(dl[d].lines[j])}} :
                     d \in Days})

DecodesIffWellFormed(dl) ==
  /\ \A d \in Days : \A i \in 1..Len(dl[d].lines) :
       ~dl[d].memories[i].isNull <=> WellFormedLine(dl[d].lines[i])
  /\ dirExists =>
       Len(getAllMemories(dirExists, files, audit, globOrder)) = WellFormedCount(dl)

\* C2: a line decodes to a record if and only if it carries a non-empty
\* ts=, type= and scope= token, and a scan of the day files returns exactly
\* the records of the lines that do; every tool call returns a result.
C2_MalformedLines ==
  /\ DecodesIffWellFormed(dirLines(files))
  /\ op \in {"recall", "update", "forget"} => result.kind # "None"

(***************************************************************************)
(* C3                                                                      *)
(***************************************************************************)
\* the lines of one day file whose decoded record is not of that scope and
\* type, in their order
StayLines(fl, scope, type) ==
  SelectSeq([i \in 1..Len(fl.lines) |-> [line |-> fl.lines[i], memory |-> fl.memories[i]]],
            LAMBDA x : ~Matching(x.memory, scope, type))

\* the decoded records of that scope and type, day by day
RECURSIVE RemovedFrom(_, _, _, _)
RemovedFrom(dl, scope, type, d) ==
  IF d > MaxDay THEN <<>>
  ELSE SelectSeq(dl[d].memories, LAMBDA m : Matching(m, scope, type))
         \o RemovedFrom(dl, scope, type, d + 1)

\* a day file holds the lines that stay, joined by newlines
ForgetFilePost(fPre, fPost, stay) ==
  IF ~fPre.exists THEN fPost = fPre
  ELSE /\ fPost.exists
       /\ fPost.text = join([k \in 1..Len(stay) |-> stay[k].line], <<NL>>)

\* the lines the audit file gained over preText
AddedAuditLines(text, preText) ==
  IF Len(text) <= Len(preText) THEN <<>>
  ELSE split(SubSeq(text, Len(preText) + 1, Len(text) - 1), NL)

\* an audit line with the fields of record m and the reason
Carries(line, m, reason) ==
  /\ includes(line, <<" ", "a", "c", "t", "i", "o", "n", "=", "d", "e", "l", "e", "t", "e", "d">>)
  /\ includes(line, <<" ", "o", "r", "i", "g", "i", "n", "a", "l",
      "_", "t", "s", "=">> \o m.ts \o <<SP>>)
  /\ includes(line, KvType \o m.type \o <<SP>>)
  /\ includes(line, KvScope \o m.scope \o <<SP>>)
  /\ includes(line, KvContent \o escapeQuotes(m.content) \o <<QUOTE, SP>>)
  /\ includes(line, KvReason \o escapeQuotes(reason) \o <<QUOTE>>)
  /\ Truthy(m.issue) => includes(line, KvIssue \o m.issue.val)
  /\ Truthy(m.tags) => includes(line, KvTags \o join(m.tags.val, <<",">>))

ForgetAuditPost(removed, reason, added) ==
  /\ SubSeq(audit.text, 1, Len(pre.audit.text)) = pre.audit.text
  /\ Len(removed) = 0 => audit = pre.audit
  /\ Len(removed) > 0 => audit.exists /\ audit.text[Len(audit.text)] = NL
  /\ Len(added) = Len(removed)
  /\ \A j \in 1..Len(removed) : \E k \in 1..Len(added) :
       Carries(added[k], removed[j], reason)
  /\ \A k \in 1..Len(added) : \E j \in 1..Len(removed) :
       Carries(added[k], removed[j], reason)
  /\ IF Len(removed) = 0 THEN result.kind \in {"NotFound", "NoMemoryFiles"}
     ELSE result.kind = "Deleted" /\ result.count = Len(removed)

ForgetPost(dl, a) ==
  /\ \A d \in Days :
       ForgetFilePost(pre.files[d], files[d], StayLines(dl[d], a.scope, a.type))
  /\ ForgetAuditPost(RemovedFrom(dl, a.scope, a.type, 1), a.reason,
                     AddedAuditLines(audit.text, pre.audit.text))

\* C3: after forget(scope, type, reason) every day file holds exactly its
\* previous lines minus those whose decoded record has exactly that scope
\* and type, the rest in their order; the audit file has gained one line per
\* removed record, with that record's fields and the reason; the returned
\* count is the number of removed records.
C3_ForgetExact == op = "forget" => ForgetPost(preLines(pre), args)

\* forget removed records from two day files and left a record behind
C3_Witness ==
  /\ op = "forget"
  /\ result.kind = "Deleted"
  /\ result.count >= 2
  /\ Cardinality({d \in Days : files[d] # pre.files[d]}) >= 2
  /\ RecordCount(dirLines(files)) > 0

(***************************************************************************)
(* C4                                                                      *)
(***************************************************************************)
InPlace(dlPre, dlPost, ps, a) ==
  /\ result.kind = "Updated"
  /\ SameLinesBut(dlPre, dlPost, ps)
  /\ \A p \in ps :
       /\ Matching(dlPost[p[1]].memories[p[2]], a.scope, a.type)
       /\ dlPost[p[1]].memories[p[2]].content = a.content
  /\ RecordCount(dlPost) = RecordCount(dlPre)

UniqueMatch(dl, ps, a) == Cardinality(ps) = 1 => InPlace(dl, dirLines(files), ps, a)

\* C4: when exactly one stored record matches (scope, type), update replaces
\* only that record's line, at the same index of the same day file, by a
\* record of the same scope and type with the new content; every other line
\* is unchanged and a scan returns as many records as before.
C4_InPlaceUpdate ==
  op = "update" =>
    UniqueMatch(preLines(pre), MatchSet(preLines(pre), args.scope, args.type), args)

(***************************************************************************)
(* C5                                                                      *)
(***************************************************************************)
\* the search score as the sum of its three parts
ScoreSpec(m, words) ==
  Cardinality({k \in 1..Len(words) :
                 \/ includes(toLowerCase(m.type), words[k])
                 \/ includes(toLowerCase(m.scope), words[k])
                 \/ includes(toLowerCase(m.content), words[k])
                 \/ m.tags.def /\ \E t \in 1..Len(m.tags.val) :
                                    includes(toLowerCase(m.tags.val[t]), words[k])})
    + 2 * Cardinality({k \in 1..Len(words) : toLowerCase(m.scope) = words[k]})
    + 2 * Cardinality({k \in 1..Len(words) : toLowerCase(m.type) = words[k]})

ScoreAt(dl, p, words) == ScoreSpec(dl[p[1]].memories[p[2]], words)

ContentMatches(dl, p, words) ==
  \E k \in 1..Len(words) :
    includes(toLowerCase(dl[p[1]].memories[p[2]].content), words[k])

\* the position of the line update went on to rewrite
TargetPos == <<local.target[1].day, local.target[1].lineIndex>>

\* p comes before q in the order update scans the day files and their lines
ScanBefore(p, q) ==
  \/ p[1] = q[1] /\ p[2] < q[2]
  \/ \E j \in Days : \E k \in Days :
       j < k /\ globOrder[j] = p[1] /\ globOrder[k] = q[1]

\* the match with the highest score is rewritten and nothing else changes,
\* or nothing scored and nothing changes
TopScored(dl, ps, words) ==
  IF \E p \in ps : ScoreAt(dl, p, words) > 0
  THEN /\ result.kind = "Updated"
       /\ TargetPos \in ps
       /\ \A q \in ps : ScoreAt(dl, q, words) <= ScoreAt(dl, TargetPos, words)
       /\ SameLinesBut(dl, dirLines(files), {TargetPos})
       /\ Matching(parseLine(split(files[TargetPos[1]].text, NL)[TargetPos[2]]),
                   args.scope, args.type)
  ELSE /\ result.kind = "NoneMatchedQuery"
       /\ result.count = Cardinality(ps)
       /\ files = pre.files
       /\ audit = pre.audit

\* of the matches that share the highest score the first in scan order is
\* the one rewritten
FirstOfTop(dl, ps, words) ==
  result.kind = "Updated" =>
    \A q \in ps \ {TargetPos} :
      ScoreAt(dl, q, words) = ScoreAt(dl, TargetPos, words)
        => ScanBefore(TargetPos, q)

\* the only candidate the query matches by content is the one rewritten
OnlyByContent(dl, ps, words) ==
  \A p \in ps :
    (ContentMatches(dl, p, words)
       /\ \A q \in ps \ {p} : ~ContentMatches(dl, q, words))
      => result.kind = "Updated" /\ TargetPos = p

\* the only candidate the query matches at all is the one rewritten
OnlyScoring(dl, ps, words) ==
  \A p \in ps :
    (ScoreAt(dl, p, words) > 0 /\ \A q \in ps \ {p} : ScoreAt(dl, q, words) = 0)
      => result.kind = "Updated" /\ TargetPos = p

QueryAmongMany(ps) == op = "update" /\ Cardinality(ps) >= 2 /\ Truthy(args.query)

C5Stated(dl, ps) ==
  QueryAmongMany(ps) =>
    /\ TopScored(dl, ps, queryWords(args.query.val))
    /\ OnlyByContent(dl, ps, queryWords(args.query.val))

C5Amended(dl, ps) ==
  QueryAmongMany(ps) =>
    /\ TopScored(dl, ps, queryWords(args.query.val))
    /\ FirstOfTop(dl, ps, queryWords(args.query.val))
    /\ OnlyScoring(dl, ps, queryWords(args.query.val))

\* C5 as stated: with two or more matches and a query, update rewrites the
\* match with the highest score and leaves every other line untouched; when
\* the query matches only one candidate by content, that one is rewritten;
\* when no candidate scores above zero, update reports that and changes no
\* file.
C5_AsStated ==
  C5Stated(preLines(pre), MatchSet(preLines(pre), args.scope, args.type))

\* C5: with two or more matches and a query, update rewrites the match with
\* the highest score (the first in scan order of those that share it) and
\* leaves every other line untouched; when the query matches only one
\* candidate at all (every other candidate scores zero), that one is
\* rewritten; when no candidate scores above zero, update reports that and
\* changes no file.
C5_QueryPicksTop ==
  C5Amended(preLines(pre), MatchSet(preLines(pre), args.scope, args.type))

C5Reached(dl, ps, words) ==
  /\ QueryAmongMany(ps)
  /\ result.kind = "Updated"
  /\ Cardinality({p \in ps : ScoreAt(dl, p, words) > 0}) = 1
  /\ \E q \in ps : q # TargetPos /\ ScoreAt(dl, q, words) = 0

\* update with a query rewrote the one candidate of two that scored
C5_Witness ==
  /\ op = "update"
  /\ Truthy(args.query)
  /\ C5Reached(preLines(pre), MatchSet(preLines(pre), args.scope, args.type),
               queryWords(args.query.val))

(***************************************************************************)
(* C6                                                                      *)
(***************************************************************************)
AmbiguousPost(ps) ==
  Cardinality(ps) >= 2 =>
    /\ result.kind = "Ambiguous"
    /\ result.count = Cardinality(ps)
    /\ files = pre.files
    /\ audit = pre.audit

\* C6: when two or more stored records match (scope, type) and update is
\* called without a query, it returns the ambiguity result stating the
\* number of matches, and no day file and not the audit file is changed.
C6_AmbiguousWithoutQuery ==
  (op = "update" /\ ~Truthy(args.query))
    => AmbiguousPost(MatchSet(preLines(pre), args.scope, args.type))

\* update without a query met two matches
C6_Witness ==
  /\ op = "update"
  /\ ~Truthy(args.query)
  /\ Cardinality(MatchSet(preLines(pre), args.scope, args.type)) = 2
  /\ result.kind = "Ambiguous"

(***************************************************************************)
(* C7                                                                      *)
(***************************************************************************)
NotFoundPost(ps) ==
  ps = {} =>
    /\ result.kind \in {"NotFound", "NoMemoryFiles"}
    /\ files = pre.files
    /\ audit = pre.audit

\* C7: when no stored record matches (scope, type), update and forget
\* return the not-found result and leave every day file and the audit file
\* unchanged.
C7_NotFound ==
  op \in {"update", "forget"}
    => NotFoundPost(MatchSet(preLines(pre), args.scope, args.type))

\* forget found nothing of its type although records of its scope are stored
C7_Witness ==
  /\ op = "forget"
  /\ result.kind = "NotFound"
  /\ \E d \in Days : \E i \in 1..Len(dirLines(files)[d].memories) :
       /\ ~dirLines(files)[d].memories[i].isNull
       /\ dirLines(files)[d].memories[i].scope = args.scope

(***************************************************************************)
(* C8                                                                      *)
(***************************************************************************)
Auth == <<"a", "u", "t", "h">>

\* the two records of the ranking example
ExampleScores(m, score) ==
  /\ (m.scope = Auth /\ m.type \in MemoryTypes
        /\ ~includes(toLowerCase(m.content), Auth) /\ ~m.tags.def)
       => score = 3
  /\ (m.scope = <<"m", "o", "b", "i", "l", "e", "-", "a", "u", "t", "h">> /\ m.type \in MemoryTypes
        /\ m.content = <<"a", "u", "t", "h", " ", "t", "o", "k", "e", "n">> /\ ~m.tags.def)
       => score = 1

ScoresRight(all, scores, words) ==
  \A k \in 1..Len(scores) :
    /\ scores[k].score = ScoreSpec(all[scores[k].memory], words)
    /\ words = <<Auth>> => ExampleScores(all[scores[k].memory], scores[k].score)

\* C8: the score of a record for a list of lower-case query tokens is the
\* number of tokens that occur in its lower-cased type, scope, content or
\* tags, plus 2 for each token equal to its scope (case-insensitive), plus
\* 2 for each token equal to its type; for the query "auth" a record of
\* scope "auth" scores 3 and a record of scope "mobile-auth" with content
\* "auth token" scores 1.
C8_SearchScore ==
  (op = "recall" /\ Truthy(args.query))
    => ScoresRight(local.all, local.scores, queryWords(args.query.val))

\* recall with the query "auth" scored a record of scope "auth" 3
C8_Witness ==
  /\ op = "recall"
  /\ args.query = Some(Auth)
  /\ \E k \in 1..Len(local.scores) :
       /\ local.all[local.scores[k].memory].scope = Auth
       /\ local.scores[k].score = 3

(***************************************************************************)
(* C9                                                                      *)
(***************************************************************************)
PassesFilters(m, a) ==
  /\ Len(a.scope) > 0 => m.scope = a.scope \/ includes(m.scope, a.scope)
  /\ Len(a.type) > 0 => m.type = a.type

\* the indices of the scanned records recall has to consider
Considered(all, a, words) ==
  {i \in 1..Len(all) :
     /\ PassesFilters(all[i], a)
     /\ Truthy(a.query) => ScoreSpec(all[i], words) > 0}

\* b may follow a in the list recall considers
MayFollow(all, a, b, ranked, words) ==
  IF ranked
  THEN \/ ScoreSpec(all[a], words) > ScoreSpec(all[b], words)
       \/ ScoreSpec(all[a], words) = ScoreSpec(all[b], words) /\ a < b
  ELSE a < b

FilteredAndOrdered(all, results, a, words) ==
  /\ {results[k] : k \in 1..Len(results)} = Considered(all, a, words)
  /\ \A j \in 1..Len(results) : \A k \in 1..Len(results) :
       j < k => MayFollow(all, results[j], results[k], Truthy(a.query), words)

\* C9: the records recall considers are exactly the scanned records whose
\* scope equals or contains the scope filter (when given) and whose type
\* equals the type filter (when given); with a query the records of score
\* zero are left out and the rest is in order of non-increasing score,
\* records of equal score in scan order; without a query in scan order.
C9_FilterAndOrder ==
  (op = "recall" /\ Len(local.all) > 0)
    => /\ local.all = getAllMemories(dirExists, files, audit, globOrder)
       /\ FilteredAndOrdered(local.all, local.results, args,
            IF Truthy(args.query) THEN queryWords(args.query.val) ELSE <<>>)

C9Reached(all, results, words) ==
  /\ Len(results) >= 3
  /\ Len(results) < Len(all)
  /\ results[1] > results[2]
  /\ ScoreSpec(all[results[1]], words) > ScoreSpec(all[results[2]], words)
  /\ ScoreSpec(all[results[2]], words) = ScoreSpec(all[results[3]], words)

\* recall with a query left a record out, moved the best record to the
\* front and kept two records of equal score in scan order
C9_Witness ==
  /\ op = "recall"
  /\ Truthy(args.query)
  /\ C9Reached(local.all, local.results, queryWords(args.query.val))

(***************************************************************************)
(* C10                                                                     *)
(***************************************************************************)
\* the last n entries of xs; none when n is not positive
LastN(xs, n) ==
  IF n <= 0 THEN <<>>
  ELSE SubSeq(xs, (IF Len(xs) > n THEN Len(xs) - n ELSE 0) + 1, Len(xs))

CapPost(all, results, limited, limit) ==
  /\ Len(limited) <= (IF limit > 0 THEN limit ELSE 0)
  /\ limited = LastN(results, limit)
  /\ result.memories = [k \in 1..Len(limited) |-> all[limited[k]]]

\* C10: recall returns at most limit records, limit being the value the
\* caller supplied or 20 when none was supplied, and they are the last
\* limit entries of the filtered and sorted list in that list's order, for
\* every supplied limit, 0 and negative values included.
C10_ResultCap ==
  (op = "recall" /\ Len(local.all) > 0)
    => CapPost(local.all, local.results, local.limited,
               IF args.limit.def THEN args.limit.val ELSE DefaultLimit)

(***************************************************************************)
(* C11                                                                     *)
(***************************************************************************)
\* what the day file of the current date gained over its previous content
NewText(text, preText) == SubSeq(text, Len(preText) + 1, Len(text))

\* one line and its newline
OneLine(t) ==
  /\ Len(t) > 0
  /\ t[Len(t)] = NL
  /\ \A i \in 1..(Len(t) - 1) : t[i] # NL

\* the line starts with the timestamp, type and scope of the record and
\* carries its content, issue and tags
Encodes(t, a, ts) ==
  /\ OccursAt(t, KvTs \o ts \o KvType \o a.type \o KvScope \o a.scope \o KvContent, 1)
  /\ includes(t, KvContent \o escapeQuotes(a.content) \o <<QUOTE>>)
  /\ Truthy(a.issue) => includes(t, KvIssue \o a.issue.val)
  /\ Truthy(a.tags) => includes(t, KvTags \o join(a.tags.val, <<",">>))

AppendPost(a, text, preText) ==
  /\ dirExists
  /\ files[today].exists
  /\ SubSeq(text, 1, Len(preText)) = preText
  /\ OneLine(NewText(text, preText))
  /\ Encodes(NewText(text, preText), a, toISOString(today))
  /\ Len(getAllMemories(TRUE, files, audit, globOrder))
       = Len(getAllMemories(TRUE, pre.files, pre.audit, globOrder)) + 1
  /\ \A d \in Days \ {today} : files[d] = pre.files[d]
  /\ audit = pre.audit

\* C11: after remember the day file of the current date is its previous
\* content followed by exactly one new line that encodes the given record
\* (directory and file created when absent), a scan returns exactly one
\* record more than before, and no other day file and not the audit file
\* has changed.
C11_Append ==
  op = "remember"
    => AppendPost(args, files[today].text, textOrEmpty(pre.files[today]))

(***************************************************************************)
(* C12                                                                     *)
(***************************************************************************)
IsPrefix(s, t) == Len(s) <= Len(t) /\ SubSeq(t, 1, Len(s)) = s

\* the records of a scan are the decoded lines of the day files, no more
ScanOfDayFiles(all, dl) ==
  /\ Len(all) = RecordCount(dl)
  /\ \A k \in 1..Len(all) :
       \E d \in Days : \E i \in 1..Len(dl[d].memories) : dl[d].memories[i] = all[k]

\* update and forget act on lines of day files only
ActsOnDayFiles(ps) ==
  /\ (op = "update" /\ result.kind = "Updated") => TargetPos \in ps
  /\ op = "forget" => result.count = Cardinality(ps)

\* with an audit file present, before or after the operation
AuditExcluded ==
  /\ audit.exists
       => ScanOfDayFiles(getAllMemories(dirExists, files, audit, globOrder),
                         dirLines(files))
  /\ (op \in {"update", "forget"} /\ pre.audit.exists)
       => ActsOnDayFiles(MatchSet(preLines(pre), args.scope, args.type))

AuditGrows ==
  /\ audit.exists => audit'.exists
  /\ IsPrefix(audit.text, audit'.text)

\* C12: no line of the audit file is returned by a scan (the scan recall and
\* list read), none is matched by update or forget, and every operation
\* leaves the previous content of the audit file as a prefix of its new
\* content.
C12_AuditTrail == []AuditExcluded /\ [][AuditGrows]_vars

AuditLineMatches(lines, scope, type) ==
  \E k \in 1..Len(lines) : Matching(parseLine(lines[k]), scope, type)

\* update or forget ran over an audit file that held a line of its scope and
\* type, and added to it
C12_Witness ==
  /\ op \in {"update", "forget"}
  /\ pre.audit.exists
  /\ Len(audit.text) > Len(pre.audit.text)
  /\ AuditLineMatches(split(pre.audit.text, NL), args.scope, args.type)

(***************************************************************************)
(* C13                                                                     *)
(***************************************************************************)
HookOps == {"chat.message", "tool.execute.before", "tool.execute.after"}

\* the event the last operation handed to the log writer, and its scope
LastEvent == local.emitted[1].payload
LastScope == local.emitted[1].scope

\* the SessionInfo of id: the cached one, or what a lookup of it gives
InfoOf(id) ==
  IF id \in DOMAIN sessionInfo THEN sessionInfo[id]
  ELSE IF id \in DOMAIN SessionTable THEN infoOf(SessionTable[id])
  ELSE fallbackInfo(id)

\* the file of the events of session id
RoutedFile(id) ==
  sessionsDir \o
    (IF Truthy(InfoOf(id).parentID)
     THEN InfoOf(InfoOf(id).parentID.val).slug \o <<"/">>
            \o (IF id \in DOMAIN sessionAgents THEN sessionAgents[id]
                ELSE <<"s", "u", "b", "a", "g", "e", "n", "t">>)
            \o <<"-">> \o id \o <<".", "j", "s", "o", "n", "l">>
     ELSE InfoOf(id).slug \o <<"/", "m", "a", "i", "n", ".", "j", "s", "o", "n", "l">>)

\* the last line of the file at path is event, and the file grew by it
AppendedTo(path, event) ==
  /\ path \in DOMAIN logs
  /\ logs[path] = (IF path \in DOMAIN pre.logs THEN pre.logs[path] ELSE <<>>)
                    \o <<event>>

\* the event log files the last operation created or changed
ChangedLogs ==
  {p \in DOMAIN logs : p \notin DOMAIN pre.logs \/ logs[p] # pre.logs[p]}

\* the files of the directory sessions/<slug>/
InDirectory(slug) ==
  {p \in DOMAIN logs : IsPrefix(sessionsDir \o slug \o <<"/">>, p)}

\* the event of a hook passes the gate of the logger
HookLogged ==
  /\ op \in HookOps
  /\ logger.enabled
  /\ Len(logger.scopes) = 0 \/ scopesInclude(logger.scopes, <<"*">>)
       \/ scopesInclude(logger.scopes, LastScope)

\* C13: with logging enabled, the event of a hook is appended to
\* sessions/<own slug>/main.jsonl when its session has no parent and to
\* sessions/<parent's slug>/<agent or subagent>-<session id>.jsonl when it
\* has one, and a session with a parent gets no directory of its own slug
C13_SessionRouting ==
  HookLogged =>
    /\ AppendedTo(RoutedFile(args.sessionID), LastEvent)
    /\ ChangedLogs = {RoutedFile(args.sessionID)}
    /\ Truthy(InfoOf(args.sessionID).parentID)
         => ChangedLogs \cap InDirectory(InfoOf(args.sessionID).slug) = {}

(***************************************************************************)
(* C14                                                                     *)
(***************************************************************************)
\* the last line of the event log file at path
LastLine(path) == logs[path][Len(logs[path])]

\* C14: every event line a hook writes has session_id and
\* subagent_session_id equal to the id of the session of the event, and
\* parent_session_id equal to the parent id the session lookup gives, null
\* exactly when the session has no parent
C14_SessionFields ==
  op \in HookOps =>
    \A p \in ChangedLogs :
      /\ LastLine(p).session_id = Some(args.sessionID)
      /\ LastLine(p).subagent_session_id = Some(args.sessionID)
      /\ LastLine(p).parent_session_id = orNull(InfoOf(args.sessionID).parentID)

(***************************************************************************)
(* C15                                                                     *)
(***************************************************************************)
\* the ancestor of session id that has no parent
RECURSIVE RootOf(_)
RootOf(id) ==
  IF Truthy(InfoOf(id).parentID) THEN RootOf(InfoOf(id).parentID.val) ELSE id

\* the events the last operation built: the one buildLoggerEvent returned
\* to its caller and the ones the hooks wrote
BuiltEvents ==
  {local.built[k] : k \in 1..Len(local.built)}
    \cup (IF op \in HookOps THEN {LastLine(p) : p \in ChangedLogs} ELSE {})

\* C15: the root_session_id of every event is the id of the ancestor of its
\* session that has no parent, at any depth of the parent chain, and the id
\* of the session itself when it has no parent
C15_RootSession ==
  \A e \in BuiltEvents : e.root_session_id = Some(RootOf(args.sessionID))

(***************************************************************************)
(* C16                                                                     *)
(***************************************************************************)
\* the calls of the session lookup made for id so far
CallsFor(calls, id) == IF id \in DOMAIN calls THEN calls[id] ELSE 0

\* at most one call of the session lookup per session id
LookedUpOnce == \A id \in DOMAIN lookups : lookups[id] <= 1

\* a session that is cached stays cached as it is and is not looked up again
CacheKept ==
  \A id \in DOMAIN sessionInfo :
    /\ id \in DOMAIN sessionInfo'
    /\ sessionInfo'[id] = sessionInfo[id]
    /\ CallsFor(lookups', id) = CallsFor(lookups, id)

\* the operations that resolve the session of their input
ResolveOps == {"getSessionInfo", "chat.message", "tool.execute.before"}

\* a resolve leaves the session cached and returns the cached SessionInfo,
\* the one that was cached before it when there was one
ResolveCached ==
  /\ DOMAIN lookups = DOMAIN sessionInfo
  /\ op \in ResolveOps
       => /\ args.sessionID \in DOMAIN sessionInfo
          /\ local.info = <<sessionInfo[args.sessionID]>>
          /\ args.sessionID \in DOMAIN pre.sessionInfo
               => local.info = <<pre.sessionInfo[args.sessionID]>>

\* C16: over any sequence of events the session lookup is called at most
\* once for a session id, whether that call succeeded or failed; every later
\* resolve of the id returns the cached SessionInfo unchanged
C16_SessionCache == [](LookedUpOnce /\ ResolveCached) /\ [][CacheKept]_vars

\* a session the host knows, whose lookup failed, was resolved again
C16_Witness ==
  /\ op \in ResolveOps
  /\ args.sessionID \in DOMAIN pre.sessionInfo
  /\ args.sessionID \in DOMAIN SessionTable
  /\ pre.sessionInfo[args.sessionID] = fallbackInfo(args.sessionID)
  /\ local.info = <<fallbackInfo(args.sessionID)>>
  /\ lookups[args.sessionID] = 1

(***************************************************************************)
(* C17                                                                     *)
(***************************************************************************)
\* the lookup of session id fails: it has failed, or the host does not know
\* the session
LookupFails(id) ==
  IF id \in DOMAIN sessionInfo THEN sessionInfo[id] = fallbackInfo(id)
  ELSE id \notin DOMAIN SessionTable

\* C17: when the lookup of the session of a hook event fails, the
\* SessionInfo resolved has id, title and slug equal to the session id and
\* no parent, and the event is logged all the same, to
\* sessions/<session id>/main.jsonl with parent_session_id null
C17_LookupFailure ==
  (HookLogged /\ LookupFails(args.sessionID)) =>
    /\ \A k \in 1..Len(local.info) : local.info[k] = fallbackInfo(args.sessionID)
    /\ AppendedTo(sessionsDir \o args.sessionID \o <<"/", "m",
      "a", "i", "n", ".", "j", "s", "o", "n", "l">>, LastEvent)
    /\ LastEvent.parent_session_id = Undefined

(***************************************************************************)
(* C18                                                                     *)
(***************************************************************************)
\* the logger is enabled and its scope list is empty, holds * or holds scope
GateOpen(scope) ==
  /\ logger.enabled
  /\ \/ logger.scopes = <<>>
     \/ \E k \in 1..Len(logger.scopes) : logger.scopes[k] \in {<<"*">>, scope}

\* the last operation raised an event and the event was appended to a file
EventAppended ==
  /\ local.emitted # <<>>
  /\ \E p \in DOMAIN logs : ChangedLogs = {p} /\ AppendedTo(p, LastEvent)

EnvelopeKeys ==
  {"ts", "event", "session_id", "subagent_session_id", "parent_session_id",
   "root_session_id", "task_id", "agent"}

\* event has the envelope made from input i at time now, and the fields of
\* payload that are not envelope keys
KeepsEnvelope(event, i, payload, now) ==
  /\ event.ts = Some(now)
  /\ event.event = Some(<<"t", "o", "o", "l", "_", "e", "x", "e",
      "c", "u", "t", "e", "_", "b", "e", "f", "o", "r", "e">>)
  /\ event.session_id = Some(i.sessionID)
  /\ event.subagent_session_id = Some(i.sessionID)
  /\ event.parent_session_id = i.parentSessionID
  /\ event.root_session_id \in {Some(i.sessionID), i.parentSessionID}
  /\ event.task_id = orNull(i.taskID)
  /\ event.agent = orNull(i.agent)
  /\ \A k \in DOMAIN payload \ EnvelopeKeys : event[k] = payload[k]

\* C19: whatever keys the payload of the caller has, those of the envelope
\* included, the event keeps the envelope values of ts, event, session_id,
\* subagent_session_id, parent_session_id, root_session_id, task_id and
\* agent, and has the other payload fields at its top level
C19_EnvelopeProtection ==
  op = "buildLoggerEvent" =>
    KeepsEnvelope(local.built[1], args, args.payload[1], toISOString(today))

(***************************************************************************)
(* C20                                                                     *)
(***************************************************************************)
\* the sessions that are cached from a lookup that succeeded
LookedUp == {id \in DOMAIN sessionInfo : sessionInfo[id] # fallbackInfo(id)}

\* what follows the date of creation and the hyphen in the slug of id
TitlePart(id) ==
  SubSeq(sessionInfo[id].slug, Len(isoDateOf(SessionTable[id].created)) + 2,
         Len(sessionInfo[id].slug))

\* the letters and digits of s, in order
Alnums(s) == SelectSeq(s, IsAlnum)

\* the runs of other characters that lie between two letters or digits of s
InnerRuns(s) ==
  {i \in 2..Len(s) :
     /\ ~IsAlnum(s[i])
     /\ IsAlnum(s[i - 1])
     /\ \E j \in (i + 1)..Len(s) : IsAlnum(s[j])}

Hyphens(s) == {i \in 1..Len(s) : s[i] = "-"}

\* part is title in lower case with each run of characters that are not
\* letters or digits turned into one hyphen, without a hyphen in front and
\* cut to SlugMax characters
SlugOf(part, title) ==
  /\ \A i \in 1..Len(part) : IsAlnum(part[i]) \/ part[i] = "-"
  /\ \A i \in 1..Len(part) - 1 : ~(part[i] = "-" /\ part[i + 1] = "-")
  /\ Len(part) > 0 => part[1] # "-"
  /\ Len(part) <= SlugMax
  /\ IsPrefix(Alnums(part), Alnums(toLowerCase(title)))
  /\ Len(part) < SlugMax =>
       /\ Alnums(part) = Alnums(toLowerCase(title))
       /\ Cardinality(Hyphens(part)) = Cardinality(InnerRuns(toLowerCase(title)))

NoTrailingHyphen(part) == Len(part) > 0 => part[Len(part)] # "-"

\* the slugs of the sessions of the host, the first created 2026-02-21 and
\* titled "Fix Auth Bug!!", the second created one second before the end
\* of that day and the third one second later
ExampleSlugs ==
  /\ SesMain \in LookedUp => sessionInfo[SesMain].slug = <<"2",
      "0", "2", "6", "-", "0", "2", "-", "2", "1", "-", "f", "i",
      "x", "-", "a", "u", "t", "h", "-", "b", "u", "g">>
  /\ SesSub \in LookedUp => sessionInfo[SesSub].slug = <<"2", "0",
      "2", "6", "-", "0", "2", "-", "2", "1", "-", "a", "p", "i", "-", "f", "i", "x">>
  /\ SesDeep \in LookedUp => sessionInfo[SesDeep].slug = <<"2",
      "0", "2", "6", "-", "0", "2", "-", "2", "2", "-", "d", "e", "e", "p">>

\* the slug of every session looked up is the date of its creation, a
\* hyphen and the slugified title
DatedSlugs ==
  \A id \in LookedUp :
    /\ IsPrefix(isoDateOf(SessionTable[id].created) \o <<"-">>, sessionInfo[id].slug)
    /\ SlugOf(TitlePart(id), SessionTable[id].title)

C20Stated ==
  \A id \in LookedUp : NoTrailingHyphen(TitlePart(id))

C20Amended ==
  \A id \in LookedUp :
    Len(TitlePart(id)) < SlugMax => NoTrailingHyphen(TitlePart(id))

\* C20 as stated: the slug of a session that was looked up is
\* <UTC date of creation>-<slugified title>, the slugified title being in
\* lower case, with one hyphen for every run of other characters, without
\* leading or trailing hyphen and of at most 60 characters
C20_AsStated == DatedSlugs /\ ExampleSlugs /\ C20Stated

\* C20: the slug of a session that was looked up is
\* <UTC date of creation>-<slugified title>, the slugified title being in
\* lower case, with one hyphen for every run of other characters, without
\* leading hyphen, of at most 60 characters, and without trailing hyphen
\* when it is shorter than 60 characters
C20_Slug == DatedSlugs /\ ExampleSlugs /\ C20Amended

\* a session whose slugified title was cut at a hyphen, and the session of
\* the example, were looked up
C20_Witness ==
  /\ SesLong \in LookedUp
  /\ SesMain \in LookedUp
  /\ ~NoTrailingHyphen(TitlePart(SesLong))

(***************************************************************************)
(* C21                                                                     *)
(***************************************************************************)
\* the agent hint of session s
AgentHint(s) == agentOf(sessionAgents, s)

\* the hint of a session changes only by a chat message of that session
\* that names an agent, and then it is that agent
HintStep ==
  \A s \in SessionIds :
    agentOf(sessionAgents', s) =
      IF op' = "chat.message" /\ args'.sessionID = s /\ Truthy(args'.agent)
      THEN args'.agent
      ELSE AgentHint(s)

\* an event of a tool hook carries the hint of its session, null without one
ToolAgent ==
  op \in {"tool.execute.before", "tool.execute.after"}
    => LastEvent.agent = AgentHint(args.sessionID)

\* the event of a session with a parent goes to the file tagged with the
\* hint of the session, with subagent when it has none
SubagentFile ==
  (HookLogged /\ Truthy(InfoOf(args.sessionID).parentID))
    => AppendedTo(sessionsDir \o InfoOf(InfoOf(args.sessionID).parentID.val).slug
                    \o <<"/">>
                    \o (IF Truthy(AgentHint(args.sessionID))
                        THEN AgentHint(args.sessionID).val ELSE <<"s",
      "u", "b", "a", "g", "e", "n", "t">>)
                    \o <<"-">> \o args.sessionID \o <<".", "j", "s", "o", "n", "l">>,
                  LastEvent)

NoHintYet == \A s \in SessionIds : ~Truthy(AgentHint(s))

\* C21: no session has a hint at first; the hint of a session is the agent
\* named by the latest chat message of that session that named one, other
\* events leaving it alone; the tool events of a session carry its hint,
\* null without one, and its sub-agent file is tagged with the hint,
\* subagent without one
C21_AgentHint ==
  NoHintYet /\ [][HintStep]_vars /\ [](ToolAgent /\ SubagentFile)

\* the parts of C21 that do not involve the sub-agent file
C21HintOnly == NoHintYet /\ [][HintStep]_vars /\ []ToolAgent

(***************************************************************************)
(* C22                                                                     *)
(***************************************************************************)
\* the record update selected, as it was, and the record at its place now
Superseded == local.target[1].memory
Rewritten ==
  dirLines(files)[local.target[1].day].memories[local.target[1].lineIndex]

\* the optional value given when it is given (none when given empty), the
\* original one otherwise
GivenOr(given, original) ==
  IF ~given.def THEN original
  ELSE IF Len(given.val) = 0 THEN Undefined ELSE given

\* C22: the record update writes has the issue of the original record when
\* no issue is given and the tags of the original when no tags are given;
\* an issue or a tag list that is given replaces the original one
C22_UpdateInheritance ==
  (op = "update" /\ result.kind = "Updated") =>
    /\ ~Rewritten.isNull
    /\ Rewritten.issue = GivenOr(args.issue, Superseded.issue)
    /\ Rewritten.tags = GivenOr(args.tags, Superseded.tags)

\* update without issue and with tags rewrote a record that had both
C22_Witness ==
  /\ op = "update"
  /\ result.kind = "Updated"
  /\ ~args.issue.def
  /\ args.tags.def
  /\ Superseded.issue.def
  /\ Superseded.tags.def
  /\ Rewritten.tags = args.tags
  /\ Rewritten.tags # Superseded.tags
  /\ Rewritten.issue = Superseded.issue

(***************************************************************************)
(* C23                                                                     *)
(***************************************************************************)
\* what list reported, and the records it scanned
Summary == local.summary[1]
Scanned == local.all

\* the positions of the scanned records whose field f is v
WithScope(v) == {i \in 1..Len(Scanned) : Scanned[i].scope = v}
WithType(v) == {i \in 1..Len(Scanned) : Scanned[i].type = v}

RECURSIVE SumCounts(_, _)
SumCounts(entries, i) ==
  IF i > Len(entries) THEN 0 ELSE entries[i].count + SumCounts(entries, i + 1)

\* entries names every key of keys once and no other
ListsExactly(entries, keys) ==
  /\ {entries[k].key : k \in 1..Len(entries)} = keys
  /\ Len(entries) = Cardinality(keys)

NonIncreasing(entries) ==
  \A k \in 1..Len(entries) - 1 : entries[k].count >= entries[k + 1].count

\* C23: list reports every scope and every type of the scanned records with
\* the exact number of records that have it, and every scope with exactly
\* the types seen with it; the total, the sum of the counts of the scopes
\* and the sum of the counts of the types are the number of scanned
\* records; scopes and types are listed by non-increasing count
C23_ListSummary ==
  (op = "list" /\ result.kind = "Listed") =>
    /\ ListsExactly(Summary.scopes, {Scanned[i].scope : i \in 1..Len(Scanned)})
    /\ ListsExactly(Summary.types, {Scanned[i].type : i \in 1..Len(Scanned)})
    /\ \A k \in 1..Len(Summary.scopes) :
         /\ Summary.scopes[k].count = Cardinality(WithScope(Summary.scopes[k].key))
         /\ {Summary.scopes[k].types[j] : j \in 1..Len(Summary.scopes[k].types)}
              = {Scanned[i].type : i \in WithScope(Summary.scopes[k].key)}
    /\ \A k \in 1..Len(Summary.types) :
         Summary.types[k].count = Cardinality(WithType(Summary.types[k].key))
    /\ Summary.total = Len(Scanned)
    /\ SumCounts(Summary.scopes, 1) = Len(Scanned)
    /\ SumCounts(Summary.types, 1) = Len(Scanned)
    /\ NonIncreasing(Summary.scopes)
    /\ NonIncreasing(Summary.types)

\* list put a scope with more records before the scope it scanned first,
\* and reported a type that two records have
C23_Witness ==
  /\ op = "list"
  /\ result.kind = "Listed"
  /\ Len(Summary.scopes) >= 2
  /\ Summary.scopes[1].key # Scanned[1].scope
  /\ Summary.scopes[1].count > Summary.scopes[2].count
  /\ \E k \in 1..Len(Summary.types) : Summary.types[k].count >= 2

(***************************************************************************)
(* C24                                                                     *)
(***************************************************************************)
ScanOps == {"recall", "list"}

\* a scan leaves the day files and the audit file as they were
ScanWritesNothing ==
  op \in ScanOps => files = pre.files /\ audit = pre.audit

\* a scan that follows a scan returns the same records in the same order
ScanRepeats == (op \in ScanOps /\ op' \in ScanOps) => local'.all = local.all

\* C24: recall and list create, change or delete no day file and not the
\* audit file, so two scans with no write between them return the same
\* records in the same order
C24_ReadOnlyScans == []ScanWritesNothing /\ [][ScanRepeats]_vars

\* a second scan of the store as it was at first returned its records
C24_Witness ==
  /\ op \in ScanOps
  /\ nOps >= 2
  /\ files = [d \in Days |-> IF d = 1 THEN File(EditedText) ELSE Absent]
  /\ Len(local.all) >= 2

(***************************************************************************)
(* C25                                                                     *)
(***************************************************************************)
\* the call of caller c is the only one made so far
RanAlone(c) == nOps = 1 /\ local.calls[c].status # "none"

\* the records of the day files at the time of the call that are no line of
\* their file any more: removed or superseded
GoneRecords(c) ==
  { m \in UNION { { fileLines(local.calls[c].pre.files[d]).memories[n] :
                      n \in { n \in 1..Len(fileLines(local.calls[c].pre.files[d]).lines) :
                                \A j \in 1..Len(fileLines(files[d]).lines) :
                                  fileLines(files[d]).lines[j]
                                    # fileLines(local.calls[c].pre.files[d]).lines[n] } } :
                  d \in Days } : ~m.isNull }

\* the lines the audit file got since the call was made
AuditAdded(c) ==
  { l \o <<NL>> :
      l \in { split(SubSeq(textOrEmpty(audit),
                           Len(textOrEmpty(local.calls[c].pre.audit)) + 1,
                           Len(textOrEmpty(audit))), NL)[n] :
                n \in 1..Len(split(SubSeq(textOrEmpty(audit),
                                          Len(textOrEmpty(local.calls[c].pre.audit)) + 1,
                                          Len(textOrEmpty(audit))), NL)) }
             \ {<<>>} }

\* the audit line the call of c writes for record m
AuditLineOf(c, m) ==
  deletionLine(m,
               IF local.calls[c].op = "update"
               THEN UpdatedTo \o local.calls[c].args.content
               ELSE local.calls[c].args.reason,
               toISOString(today))

\* every record gone from its day file has its audit line, and every audit
\* line written is that of a record gone from its day file
RecordLevelWhole(c) ==
  /\ \A m \in GoneRecords(c) : AuditLineOf(c, m) \in AuditAdded(c)
  /\ \A l \in AuditAdded(c) : \E m \in GoneRecords(c) : l = AuditLineOf(c, m)

\* C25: when a read or a write inside remember, update or forget fails, the
\* call fails as a whole and leaves no record removed or superseded without
\* its audit line and no audit line for a record that is unchanged in its
\* day file
C25_IOFailureAtomicity ==
  \A c \in Callers :
    (local.calls[c].status = "failed" /\ RanAlone(c)) => RecordLevelWhole(c)

\* the same of the calls that returned
C25Returned ==
  \A c \in Callers :
    (local.calls[c].status = "returned" /\ RanAlone(c)) => RecordLevelWhole(c)

(***************************************************************************)
(* C26                                                                     *)
(***************************************************************************)
\* caller c takes the step that writes a day file
Writes(c, o, pc) ==
  /\ at(c, o, pc)
  /\ local'.calls[c].pc # pc
  /\ local'.calls[c].status # "failed"

\* every write of a day file puts the text the writing call read before,
\* with the change of that call, in the place of whatever the file holds
WholeFileWrites ==
  \A c \in Callers :
    /\ Writes(c, "remember", "write") =>
         files'[local.calls[c].i] =
           File(local.calls[c].existing
                  \o rememberLine(local.calls[c].args, toISOString(today)))
    /\ Writes(c, "update", "rewrite") =>
         split(files'[local.calls[c].target[1].day].text, NL) =
           [n \in 1..Len(split(files'[local.calls[c].target[1].day].text, NL)) |->
              IF n = local.calls[c].target[1].lineIndex
              THEN updateLine(local.calls[c].args, local.calls[c].target[1].memory,
                              toISOString(today))
              ELSE IF n <= Len(split(local.calls[c].existing, NL))
              THEN split(local.calls[c].existing, NL)[n]
              ELSE <<>>]
    /\ Writes(c, "forget", "write") =>
         files'[local.calls[c].names[local.calls[c].i].day] =
           File(local.calls[c].existing)

\* the call of c returned a success
Succeeded(c) ==
  /\ local.calls[c].status = "returned"
  /\ local.calls[c].result.kind \in {"Remembered", "Updated", "Deleted"}

\* the lines of the day file of day d
DayLines(d) == { fileLines(files[d]).lines[n] : n \in 1..Len(fileLines(files[d]).lines) }

\* the record remember appended is not in its day file
LostAppend(c) ==
  /\ local.calls[c].op = "remember"
  /\ \A l \in DayLines(local.calls[c].i) :
       l \o <<NL>> # rememberLine(local.calls[c].args, toISOString(today))

\* the line update wrote is not in its day file
LostRewrite(c) ==
  /\ local.calls[c].op = "update"
  /\ updateLine(local.calls[c].args, local.calls[c].target[1].memory,
                toISOString(today))
       \notin DayLines(local.calls[c].target[1].day)

\* a record forget removed is in a day file
LostDeletion(c) ==
  /\ local.calls[c].op = "forget"
  /\ \E d \in Days : \E l \in DayLines(d) :
       \E n \in 1..Len(local.calls[c].deleted) :
         parseLine(l) = local.calls[c].deleted[n]

LostEffect(c) == LostAppend(c) \/ LostRewrite(c) \/ LostDeletion(c)

\* C26: two of remember, update and forget that overlap on a day file can
\* lose an update: each writes the whole file from what it read, so that
\* the last write wins and, after both returned success, the record one
\* appended, the line it rewrote or its deletion can be missing from the file
C26_LostUpdate == [][WholeFileWrites]_vars

\* both calls returned success and the effect of one is not in the file
C26_Witness ==
  /\ nOps = 2
  /\ \A c \in Callers : Succeeded(c)
  /\ \E c \in Callers : LostEffect(c)

(***************************************************************************)
(* C27                                                                     *)
(***************************************************************************)
\* caller c takes a step of its update from the await pc
UpdateStep(c, pc) ==
  /\ at(c, "update", pc)
  /\ local'.calls[c].pc # pc
  /\ local'.calls[c].status # "failed"

\* the lines of the audit file
AuditLines ==
  { split(textOrEmpty(audit), NL)[n] \o <<NL>> :
      n \in 1..Len(split(textOrEmpty(audit), NL)) }

\* the rewrite of the day file finds the audit line of its target written;
\* the audit step appends that one line and leaves the day files alone; no
\* other step of an update writes the audit file
AuditThenRewrite ==
  \A c \in Callers :
    /\ UpdateStep(c, "rewrite") =>
         AuditLineOf(c, local.calls[c].target[1].memory) \in AuditLines
    /\ UpdateStep(c, "audit") =>
         /\ audit' = File(textOrEmpty(audit)
                            \o AuditLineOf(c, local.calls[c].target[1].memory))
         /\ files' = files
    /\ \A pc \in {"scan", "reread", "rewrite", "log", "logWrite"} :
         UpdateStep(c, pc) => audit' = audit

\* the record at the target's place when the update was called
SupersededOf(c) ==
  fileLines(local.calls[c].pre.files[local.calls[c].target[1].day])
    .memories[local.calls[c].target[1].lineIndex]

\* after an update that ran alone and returned, the audit file has one more
\* line: that of the record as it was before, with its timestamp as
\* original_ts and its type, scope, content, issue and tags
SupersededAudited ==
  \A c \in Callers :
    (local.calls[c].op = "update" /\ Succeeded(c) /\ RanAlone(c)) =>
      /\ ~SupersededOf(c).isNull
      /\ textOrEmpty(audit) =
           textOrEmpty(local.calls[c].pre.audit)
             \o deletionLine(SupersededOf(c),
                             UpdatedTo \o local.calls[c].args.content,
                             toISOString(today))
      /\ parseLine(SubSeq(textOrEmpty(audit), 1, Len(textOrEmpty(audit)) - 1)).content
           = SupersededOf(c).content

ScanIndexWritten ==
  \A c \in Callers :
    /\ (UpdateStep(c, "scan") /\ local'.calls[c].pc # "idle") =>
         fileLines(files[local'.calls[c].target[1].day])
           .memories[local'.calls[c].target[1].lineIndex]
           = local'.calls[c].target[1].memory
    /\ UpdateStep(c, "reread") =>
         local'.calls[c].existing = files[local.calls[c].target[1].day].text
    /\ UpdateStep(c, "rewrite") =>
         /\ local'.calls[c].target = local.calls[c].target
         /\ split(files'[local.calls[c].target[1].day].text, NL)
              [local.calls[c].target[1].lineIndex]
              = updateLine(local.calls[c].args, local.calls[c].target[1].memory,
                           toISOString(today))

\* what the file read again held at the index of the target
Overwritten(c) ==
  parseLine(split(local.calls[c].existing, NL)[local.calls[c].target[1].lineIndex])

\* the record held by a line of the day file of day d
InDayFile(d, m) == \E l \in DayLines(d) : parseLine(l) = m

\* C28: update finds the line index of its target in its scan and writes at
\* that index of the file as read again for the rewrite; when another
\* operation changed the file in between, the index can be that of another
\* record, which update then overwrites
C28_StaleLineIndex == [][ScanIndexWritten]_vars

\* an update returned success after it overwrote a record it had not
\* selected: the selected record is in the file as it was, the other one is
\* gone
C28_Witness ==
  \E c \in Callers :
    /\ local.calls[c].op = "update" /\ Succeeded(c)
    /\ Len(split(local.calls[c].existing, NL)) >= local.calls[c].target[1].lineIndex
    /\ ~Overwritten(c).isNull
    /\ Overwritten(c) # local.calls[c].target[1].memory
    /\ InDayFile(local.calls[c].target[1].day, local.calls[c].target[1].memory)
    /\ ~InDayFile(local.calls[c].target[1].day, Overwritten(c))

LogsAppendOnly ==
  \A p \in DOMAIN logs :
    /\ p \in DOMAIN logs'
    /\ Len(logs'[p]) >= Len(logs[p])
    /\ SubSeq(logs'[p], 1, Len(logs[p])) = logs[p]

\* the step of a hook leaves the day files and the audit file as they are
HooksLeaveStore ==
  op' \in HookOps => files' = files /\ audit' = audit

\* C30: logging an event creates and changes no day file and not the audit
\* file, no memory operation changes a line an event log file has, and
\* every write to an event log file leaves what the file held as the
\* beginning of what it holds
C30_StoreSeparation == [][LogsAppendOnly /\ HooksLeaveStore]_vars

(***************************************************************************)
(* C31                                                                     *)
(***************************************************************************)
\* the record version remember or update writes for arguments a on day d
VersionOf(a, d) ==
  [ts |-> toISOString(d), type |-> a.type, scope |-> a.scope, content |-> a.content]

\* the versions the calls of a behaviour can write
Versions ==
  { VersionOf(a, d) : a \in RememberInputs \cup UpdateInputs, d \in Days }

\* the fields of a version as remember, update and logDeletion encode them
EncodedFields(v) ==
  KvType \o v.type \o KvScope \o v.scope
    \o KvContent \o escapeQuotes(v.content) \o <<QUOTE>>

\* a day file holds the version
PresentIn(fs, v) ==
  \E d \in Days : includes(textOrEmpty(fs[d]), KvTs \o v.ts \o EncodedFields(v))

\* the audit file has a line with the version's timestamp as original_ts
\* and its type, scope and content
AuditedIn(au, v) ==
  includes(textOrEmpty(au), KvAction \o v.ts \o EncodedFields(v))

\* what remember and a successful update write is in a day file
WrittenIsPresent ==
  (op = "remember" \/ (op = "update" /\ result.kind = "Updated"))
    => PresentIn(files, VersionOf(args, today))

\* a version that was in a day file or in the audit file before the last
\* operation is in a day file or in the audit file after it
NoneDropped ==
  \A v \in Versions :
    (PresentIn(pre.files, v) \/ AuditedIn(pre.audit, v))
      => (PresentIn(files, v) \/ AuditedIn(audit, v))

\* C31: after any sequence of remember, update and forget, one after the
\* other and without I/O failure, every record version that was written to
\* a day file is in a day file or has a line in the audit file with its
\* original timestamp, type, scope and content
C31_NoSilentLoss == WrittenIsPresent /\ NoneDropped

\* the same of the versions whose content has no double quote and no line
\* break
PlainVersions ==
  { v \in Versions : \A n \in 1..Len(v.content) : v.content[n] \notin {QUOTE, NL} }

C31Plain ==
  /\ WrittenIsPresent
  /\ \A v \in PlainVersions :
       (PresentIn(pre.files, v) \/ AuditedIn(pre.audit, v))
         => (PresentIn(files, v) \/ AuditedIn(audit, v))

(***************************************************************************)
(* C32                                                                     *)
(***************************************************************************)
\* the score recall gave to the record at index i of the scan
RecallScore(i) ==
  (CHOOSE x \in {local.scores[n] : n \in 1..Len(local.scores)} : x.memory = i).score

\* the records recall returned and those that matched and were left out
Returned == {local.limited[n] : n \in 1..Len(local.limited)}
Omitted == {local.results[n] : n \in 1..Len(local.results)} \ Returned

\* recall ran with a query and a positive limit, or none, and more records
\* matched than the limit
Capped ==
  /\ op = "recall"
  /\ Truthy(args.query)
  /\ args.limit.def => args.limit.val > 0
  /\ Len(local.results) > effectiveLimit(args.limit)

C32KeepsLast ==
  Capped => \A i \in Omitted : \A j \in Returned : RecallScore(i) >= RecallScore(j)

(***************************************************************************)
(* C33                                                                     *)
(***************************************************************************)
\* the event log files that hold an event of session id
FilesOf(id) ==
  {p \in DOMAIN logs :
     \E k \in 1..Len(logs[p]) :
       /\ "session_id" \in DOMAIN logs[p][k]
       /\ logs[p][k].session_id = Some(id)}

\* C33: all the events logged for one session id are in one file: the path
\* of a session does not change between two of its events, not even when
\* its agent hint is set after earlier events of the session were logged
C33_OneFilePerSession == \A id \in SessionIds : Cardinality(FilesOf(id)) <= 1

\* the events of a session without parent are in one file
C33MainOnly ==
  \A id \in SessionIds :
    ~Truthy(InfoOf(id).parentID) => Cardinality(FilesOf(id)) <= 1

\* the events of a session with a parent are in two files of the directory
\* of the parent, one tagged subagent and one tagged with its later hint
C33HintMoved ==
  \E id \in SessionIds :
    /\ Truthy(InfoOf(id).parentID)
    /\ Truthy(AgentHint(id))
    /\ FilesOf(id) =
         { sessionsDir \o InfoOf(InfoOf(id).parentID.val).slug \o <<"/">>
             \o tag \o <<"-">> \o id \o <<".", "j", "s", "o", "n", "l">> :
           tag \in {<<"s", "u", "b", "a", "g", "e", "n", "t">>, AgentHint(id).val} }

(***************************************************************************)
(* C34                                                                     *)
(***************************************************************************)
\* the line without its quoted content: what precedes the content and what
\* follows its closing quote, the first double quote after the opening one
\* that no backslash escapes
Outside(line) ==
  LET opens == {i \in 1..Len(line) : OccursAt(line, ContentKey, i)}
  IN IF opens = {} THEN line
     ELSE LET open == Min(opens) + Len(ContentKey) - 1
              closes == {i \in (open + 1)..Len(line) :
                           line[i] = QUOTE /\ line[i - 1] # BSL}
          IN SubSeq(line, 1, open)
               \o (IF closes # {} THEN SubSeq(line, Min(closes) + 1, Len(line))
                   ELSE <<>>)

\* the value of the record's own token key=value: the whitespace-delimited
\* token outside the quoted content
OwnToken(line, key) ==
  LET o == Outside(line)
  IN TokenAt(o, Len(key),
             {i \in 1..(Len(o) - Len(key)) :
                /\ OccursAt(o, key, i)
                /\ i = 1 \/ IsSpace(o[i - 1])
                /\ ~IsSpace(o[i + Len(key)])})

\* the decoded type and scope are those of the own tokens of the line
TypeScopeOwn(line, m) ==
  /\ Some(m.type) = OwnToken(line, TypeKey)
  /\ Some(m.scope) = OwnToken(line, ScopeKey)

\* the decoded issue and tags are those of the own tokens of the line, none
\* when the line has no such token
IssueTagsOwn(line, m) ==
  /\ m.issue = OwnToken(line, IssueKey)
  /\ m.tags = (IF OwnToken(line, TagsKey).def
               THEN Some(split(OwnToken(line, TagsKey).val, ","))
               ELSE Undefined)

DecodedLines(dl) ==
  UNION {{<<d, i>> : i \in {j \in 1..Len(dl[d].lines) : ~dl[d].memories[j].isNull}} :
         d \in Days}

\* the line update rewrote, before and after
SupersededLine == preLines(pre)[local.target[1].day].lines[local.target[1].lineIndex]
RewrittenLine == dirLines(files)[local.target[1].day].lines[local.target[1].lineIndex]

\* update given no issue leaves the line the issue token it had, none when it
\* had none; likewise for the tags
InheritsOwn ==
  (op = "update" /\ result.kind = "Updated")
    => /\ ~args.issue.def
            => OwnToken(RewrittenLine, IssueKey) = OwnToken(SupersededLine, IssueKey)
       /\ ~args.tags.def
            => OwnToken(RewrittenLine, TagsKey) = OwnToken(SupersededLine, TagsKey)

\* C34: every decoded field comes from the record's own key=value token:
\* text inside the quoted content that reads like issue=, tags=, type= or
\* scope= changes no decoded field, a record stored without issue or tags
\* decodes without them, and update inherits no issue or tags the record
\* was not stored with
C34_NoFieldConfusion ==
  /\ \A p \in DecodedLines(dirLines(files)) :
       /\ TypeScopeOwn(dirLines(files)[p[1]].lines[p[2]],
                       dirLines(files)[p[1]].memories[p[2]])
       /\ IssueTagsOwn(dirLines(files)[p[1]].lines[p[2]],
                       dirLines(files)[p[1]].memories[p[2]])
  /\ InheritsOwn

\* the type and the scope of a line that has its own ts, type and scope
\* tokens are decoded from those tokens
C34OwnTypeScope ==
  \A p \in DecodedLines(dirLines(files)) :
    LET line == dirLines(files)[p[1]].lines[p[2]]
    IN (OwnToken(line, TsKey).def /\ OwnToken(line, TypeKey).def
          /\ OwnToken(line, ScopeKey).def)
         => TypeScopeOwn(line, dirLines(files)[p[1]].memories[p[2]])

\* the issue and the tags of a line whose content holds no issue= and no
\* tags= are decoded from its own tokens, and update inherits them
C34PlainContent ==
  /\ \A p \in DecodedLines(dirLines(files)) :
       LET line == dirLines(files)[p[1]].lines[p[2]]
       IN (OwnToken(line, IssueKey) = matchToken(line, IssueKey)
             /\ OwnToken(line, TagsKey) = matchToken(line, TagsKey))
            => IssueTagsOwn(line, dirLines(files)[p[1]].memories[p[2]])
  /\ (op = "update" /\ result.kind = "Updated"
        /\ OwnToken(SupersededLine, IssueKey) = matchToken(SupersededLine, IssueKey)
        /\ OwnToken(SupersededLine, TagsKey) = matchToken(SupersededLine, TagsKey))
       => InheritsOwn

====
